---- MODULE Spec2Model ----
(***************************************************************************)
(* Verification model of the orbtc indexer.                                *)
(*                                                                         *)
(*  Part I   the block indexing runtime (indexer/rt.rs), the store calls   *)
(*           it makes (indexer/db.rs) and the per-block staging buffers of *)
(*           the indexers (bitcoin_indexer_state.rs,                       *)
(*           runes_indexer_state.rs).            specification: Spec       *)
(*  Part II  the UTXO collector (service/utxo_collector/algo.rs).          *)
(*                                      specification: SpecCollector       *)
(*  Part III the listing and the reservation of UTXOs over the REST API    *)
(*           (rest/api_btc.rs, rest/context.rs, cache/mod.rs).             *)
(*                                      specification: SpecReserve         *)
(*  Part IV  the runes indexer processing the transactions of a block      *)
(*           (indexer/runes_indexer.rs, indexer/runes_indexer_state.rs,    *)
(*           db/schema.rs).             specification: SpecRunes, and      *)
(*           SpecRunesEtched on a store that holds a rune already          *)
(*  Part V   the mempool index of the API (rest/mempool_cache.rs).         *)
(*                                      specification: SpecMempool         *)
(***************************************************************************)
EXTENDS Integers, Sequences, FiniteSets, Bags, TLC

(***************************************************************************)
(* Bounds of the model.                                                    *)
(***************************************************************************)
MaxHeight == 3
MaxReorgs == 1
MaxFaults == 1
MaxRestarts == 1
\* Part II: longest candidate list, largest target
MaxLen == 5
MaxTarget == 105
\* Part III: most UTXOs of the address, largest amount requested
MaxUtxos == 2
MaxAmount == 6
\* Part III: failed calls of the reservation cache
MaxCacheFaults == 1
\* Part IV: transactions processed, highest block, reorganizations, failed
\* store reads, inputs of a transaction
MaxTxs == 2
MaxRuneHeight == 2
MaxRuneReorgs == 1
MaxRuneFaults == 1
MaxInputs == 2
\* Part IV: the premine of an etching, the amount of an edict
MaxPremine == 3
MaxEdict == 1

\* transactions per block: tx 0 is the coinbase, the others are ordinary
TxPerBlock == 3

\* "no row" of last_indexed_block for an indexer (get_last_indexed_block errs)
NoRow == -1
\* Option::None of a BlockHash
None == <<>>
\* Option::Some
Some(x) == <<x>>

VARIABLES
    \* ---- the node (bitcoind) ----
    chain,              \* best chain: chain[h+1] is the hash at height h
    headers,            \* hash -> previous_block_hash of every block ever seen
    forks,              \* number of reorganizations so far
    \* ---- the store (postgres) ----
    blocks,             \* table blocks: BlockRecords [height, hash, indexer]
    outputs,            \* table outputs        (bag of rows)
    inputs,             \* table inputs         (bag of rows)
    runes,              \* table runes          (bag of rows)
    runes_outputs,      \* table runes_outputs  (bag of rows)
    last_indexed_block, \* table last_indexed_block, the row of this indexer
    \* ---- Rt ----
    opts,               \* IndexingOpts
    pc,                 \* position of the runtime thread
    current_block,      \* _run: current_block
    last_block,         \* Rt.last_block : Option<BlockHash>
    first_block,        \* _run: first_block
    dataset,            \* the indexer's staging buffer (BlockData), a Vec
    blk,                \* index_block: block_hash of the fetched block
    txi,                \* index_block: position in block.txdata
    walk,               \* find_fork_root: block_hash
    ret,                \* value returned by index_block
    \* ---- environment bookkeeping ----
    faults,             \* store / RPC calls that failed so far
    restarts,           \* process restarts so far
    \* ---- history ----
    committed,          \* heights whose commit_state succeeded, not rewound
    fork_root           \* height of the fork root when the fork was detected

VARIABLES
    \* ---- min_utxos_to_reach_target ----
    utxos,              \* the candidates, a slice of [id, amount]
    target,             \* the target amount
    result,             \* result: Vec<U>
    collected,          \* collected
    idx,                \* idx
    kpc,                \* position in the function
    kret                \* the value returned: Ok(result) or Err(NotEnoughBalance)

VARIABLES
    \* ---- the API's store, mempool index and reservation cache ----
    utxo_view,          \* view utxos of the address, ORDER BY amount DESC
    mempool,            \* ids of the UTXOs that are spent in the mempool
    redis,              \* the keys orbtc:utxo_locks:<tx_hash>:<vout>
    unexpired,          \* history: the locks written whose TTL has not run out
    written,            \* history: the locks written
    cache_faults,       \* calls of the reservation cache that failed so far
    \* ---- list_utxos_with_lock, one call per caller ----
    request,            \* CollectUtxo of the caller and the rights of its API key
    hpc,                \* position of the handler
    shortcut,           \* the handler is in coolect_utxo_shortcut
    rows,               \* filter_used_btc_utxos: rows
    ri,                 \* filter_used_btc_utxos: position in rows
    filtered,           \* filter_used_btc_utxos: filtered
    collected_utxos,    \* list_utxos_with_lock: collected_utxos
    offset,             \* list_utxos_with_lock: offset
    locking,            \* lock_utxo: utxos
    li,                 \* lock_utxo: position in utxos
    resp,               \* the response of the handler
    passed              \* history: the UTXOs the mempool filter read as not consumed

VARIABLES
    \* ---- the rune tables of the store ----
    rune_table,         \* table runes: Rune rows with their counters
    rune_utxos,         \* table runes_outputs: RuneUtxo rows
    \* ---- RunesIndexer ----
    block_data,         \* State.dataset: runes_index, new_runes, rune_updates, new_utxos
    tx_block,           \* tx_info.block of the next transaction
    tx_n,               \* tx_info.tx_n of the next transaction
    \* ---- the chain ----
    generation,         \* reorganizations so far: a replaced block has other txids
    spent,              \* <<outpoint, block>>: outpoints spent on the best chain
    \* ---- environment bookkeeping ----
    txs,                \* transactions processed so far
    rune_faults         \* store reads that failed so far

VARIABLES
    \* ---- the node's mempool ----
    node_mempool,       \* txids of the transactions in the mempool of the node
    \* ---- MempoolCacheManager ----
    mi,                 \* inner: State [txs, utxos, utxos_by_tx]
    rwlock,             \* inner: the RwLock, "free" or held by the writer
    \* ---- refresh_state_routine ----
    mpc,                \* position of the refresh task
    tx_list,            \* refresh: txs, the set of get_raw_mempool
    disappeared,        \* refresh: disappeared, less what the loop has done
    appeared,           \* refresh: appeared
    todo,               \* refresh: what the loop over appeared has left
    mp_new_utxos,       \* refresh: new_utxos, less what the loop has done
    \* ---- history ----
    fetched,            \* cached txids whose get_raw_transaction succeeded
    applied,            \* the sets as the last completed update left them
    seen                \* the sets the latest filter call read

VARIABLES
    \* ---- a function applied to its arguments ----
    fn_call,            \* the arguments of the call
    fn_ret              \* None, or Some(the value returned)

VARIABLES
    \* ---- the CancellationToken of the command ----
    cancel,             \* is_cancelled()
    \* ---- history ----
    cancelled_at        \* the height in progress when cancel() was called, or -1

VARIABLES
    \* ---- MetricsCollector ----
    status,             \* status: None, or Some(<<StatusResponse, Instant>>)
    now,                \* Instant::now(), in seconds
    spc,                \* position of the call of service_status
    response,           \* the last answer of GET /healthcheck, or None
    \* ---- history ----
    answers             \* what node and store answered to the cached snapshot

VARIABLES
    \* ---- the addresses of the outputs: StateProvider and its store ----
    address_index,      \* StateProvider.address_index : HashSet<String>
    new_addresses,      \* dataset.new_addresses : Vec<AddressRow>
    new_outputs,        \* dataset.new_outputs : Vec<Output>
    addresses,          \* table addresses
    outputs_table,      \* table outputs
    apc,                \* position of the runtime thread
    a_block,            \* _run: current_block
    a_tx,               \* index_block: position in block.txdata
    a_faults            \* store / RPC calls that failed so far

nodeVars == <<chain, headers, forks>>
storeVars == <<blocks, outputs, inputs, runes, runes_outputs, last_indexed_block>>
tableVars == <<blocks, outputs, inputs, runes, runes_outputs>>
rtVars == <<opts, pc, current_block, last_block, first_block, dataset, blk, txi, walk, ret>>
envVars == <<faults, restarts>>
histVars == <<committed, fork_root>>
collectorVars == <<utxos, target, result, collected, idx, kpc, kret>>
apiStoreVars == <<utxo_view, mempool, redis, unexpired, written, cache_faults>>
handlerVars == <<request, hpc, shortcut, rows, ri, filtered, collected_utxos, offset, locking,
                 li, resp, passed>>
reserveVars == <<apiStoreVars, handlerVars>>
runesVars == <<rune_table, rune_utxos, block_data, tx_block, tx_n, generation, spent, txs,
               rune_faults>>
\* the variables of the other parts, which the runtime leaves alone
mempoolVars == <<node_mempool, mi, mpc, tx_list, disappeared, appeared, todo, mp_new_utxos,
                 rwlock, fetched, applied, seen>>
pureVars == <<fn_call, fn_ret>>
cancelVars == <<cancel, cancelled_at>>
statusVars == <<status, now, spc, response, answers>>
addressVars == <<address_index, new_addresses, new_outputs, addresses, outputs_table,
                 apc, a_block, a_tx, a_faults>>
notRtVars == <<collectorVars, reserveVars, runesVars, mempoolVars, pureVars, cancelVars,
               statusVars, addressVars>>
\* the variables of the runtime and its store
allRtVars == <<nodeVars, storeVars, rtVars, envVars, histVars>>
vars == <<allRtVars, collectorVars, reserveVars, runesVars, mempoolVars, pureVars, cancelVars,
          statusVars, addressVars>>

(***************************************************************************)
(* Helpers                                                                 *)
(***************************************************************************)
Max(a, b) == IF a >= b THEN a ELSE b

\* the rows of a Vec as a bag (an INSERT of the Vec adds one row per element)
RECURSIVE BagOfSeq(_)
BagOfSeq(s) == IF s = <<>> THEN EmptyBag
               ELSE SetToBag({Head(s)}) (+) BagOfSeq(Tail(s))

\* (mutation of DeleteFrom: the filter is block > height)
DeleteFromGt(table, height) ==
    [r \in {x \in DOMAIN table : x.block <= height} |-> table[r]]

\* DELETE FROM table WHERE block >= height
DeleteFrom(table, height) ==
    [r \in {x \in DOMAIN table : x.block < height} |-> table[r]]

SelectKind(s, kind) == SelectSeq(s, LAMBDA r : r.kind = kind)

\* the indexer name (TxIndexer::name)
name == IF opts.indexer_type = "BitcoinUtxo" THEN "btc_utxo_index" ELSE "runes_utxo_index"

\* RpcApi::get_block_count
best_block == Len(chain) - 1
\* RpcApi::get_block_hash
HashAt(height) == chain[height + 1]
HeightOf(hash) == hash[1]

\* the configurations the commands build
OptsSet ==
    { o \in [indexer_type : {"BitcoinUtxo", "Runes"}, dry_run : BOOLEAN,
             starting_height : {0}, retry_on_fail : BOOLEAN, skip_inputs : BOOLEAN] :
        o.indexer_type = "BitcoinUtxo" => (~o.skip_inputs /\ o.retry_on_fail) }

\* an empty HashMap
EmptyMap == [k \in {} |-> 0]

\* BlockData of a new State, and after reset_state apart from runes_index
EmptyBlockData ==
    [runes_index |-> EmptyMap, new_runes |-> EmptyMap, rune_updates |-> EmptyMap,
     new_utxos |-> <<>>]

\* the runes indexer has processed nothing
RunesIdle ==
    /\ rune_table = {}
    /\ rune_utxos = {}
    /\ block_data = EmptyBlockData
    /\ tx_block = 1
    /\ tx_n = 1
    /\ generation = 0
    /\ spent = {}
    /\ txs = 0
    /\ rune_faults = 0

\* the mempool index is not in use
MempoolIdle ==
    /\ node_mempool = {}
    /\ mi = <<>>
    /\ mpc = "idle"
    /\ tx_list = {}
    /\ disappeared = {}
    /\ appeared = {}
    /\ todo = {}
    /\ mp_new_utxos = <<>>
    /\ rwlock = "free"
    /\ fetched = {}
    /\ applied = <<>>
    /\ seen = None

\* no request for the status has been made
StatusIdle ==
    /\ status = None
    /\ now = 0
    /\ spc = "idle"
    /\ response = None
    /\ answers = None

\* no block has been indexed for its addresses
AddressIdle ==
    /\ address_index = {}
    /\ new_addresses = <<>>
    /\ new_outputs = <<>>
    /\ addresses = {}
    /\ outputs_table = {}
    /\ apc = "loop"
    /\ a_block = 0
    /\ a_tx = 0
    /\ a_faults = 0

\* no function is being applied
PureIdle ==
    /\ fn_call = None
    /\ fn_ret = None

\* no call of the collector is in progress
CollectorIdle ==
    /\ utxos = <<>>
    /\ target = 0
    /\ result = <<>>
    /\ collected = 0
    /\ idx = 0
    /\ kpc = "idle"
    /\ kret = None

\* the callers of the API
Callers == {1, 2}

\* no request is being served
ReserveIdle ==
    /\ utxo_view = <<>>
    /\ mempool = {}
    /\ redis = <<>>
    /\ unexpired = {}
    /\ written = {}
    /\ cache_faults = 0
    /\ request = [c \in Callers |-> None]
    /\ hpc = [c \in Callers |-> "idle"]
    /\ shortcut = [c \in Callers |-> FALSE]
    /\ rows = [c \in Callers |-> <<>>]
    /\ ri = [c \in Callers |-> 0]
    /\ filtered = [c \in Callers |-> <<>>]
    /\ collected_utxos = [c \in Callers |-> <<>>]
    /\ offset = [c \in Callers |-> 0]
    /\ locking = [c \in Callers |-> <<>>]
    /\ li = [c \in Callers |-> 0]
    /\ resp = [c \in Callers |-> None]
    /\ passed = [c \in Callers |-> {}]

(***************************************************************************)
(* The node                                                                *)
(***************************************************************************)
\* a new block is mined on the tip of the best chain
NodeMine ==
    /\ Len(chain) <= MaxHeight
    /\ LET h == Len(chain)
           b == <<h, forks>>
       IN /\ chain' = Append(chain, b)
          /\ headers' = [x \in DOMAIN headers \cup {b} |->
                            IF x = b THEN chain[h] ELSE headers[x]]
    /\ UNCHANGED <<forks, storeVars, rtVars, envVars, histVars>>
    /\ UNCHANGED notRtVars

\* the best chain is replaced above height keep-1 by a branch of the same length
NodeReorg ==
    /\ forks < MaxReorgs
    /\ \E keep \in 1..(Len(chain) - 1) :
         LET br == forks + 1
             fresh == [i \in 1..(Len(chain) - keep) |-> <<keep + i - 1, br>>]
         IN /\ chain' = SubSeq(chain, 1, keep) \o fresh
            /\ headers' = [x \in DOMAIN headers \cup {fresh[i] : i \in DOMAIN fresh} |->
                              IF x \in DOMAIN headers THEN headers[x]
                              ELSE IF HeightOf(x) = keep THEN chain[keep]
                              ELSE <<HeightOf(x) - 1, br>>]
    /\ forks' = forks + 1
    /\ UNCHANGED <<storeVars, rtVars, envVars, histVars>>
    /\ UNCHANGED notRtVars

(***************************************************************************)
(* The store: DB (indexer/db.rs)                                           *)
(***************************************************************************)
\* DB::get_block: the BlockRecords of this indexer with this hash
get_block(hash) == {b \in blocks : b.hash = hash /\ b.indexer = name}

\* DB::drop_blocks
drop_blocks(height) ==
    /\ blocks' = {b \in blocks : ~(b.height >= height /\ b.indexer = name)}
    /\ inputs' = DeleteFrom(inputs, height)
    /\ outputs' = DeleteFrom(outputs, height)
    /\ runes_outputs' = DeleteFrom(runes_outputs, height)
    /\ runes' = DeleteFrom(runes, height)

\* DB::drop_runes_blocks
drop_runes_blocks(height) ==
    /\ blocks' = {b \in blocks : ~(b.height >= height /\ b.indexer = name)}
    /\ runes_outputs' = DeleteFrom(runes_outputs, height)
    /\ runes' = DeleteFrom(runes, height)
    /\ UNCHANGED <<inputs, outputs>>

\* the fork root as the specification defines it: the first ancestor, walking
\* back from hash, that has a BlockRecord of this indexer (-1: none)
RECURSIVE ForkRootHeight(_)
ForkRootHeight(hash) ==
    IF hash = None THEN -1
    ELSE IF get_block(hash) # {} THEN HeightOf(hash)
    ELSE ForkRootHeight(headers[hash])

(***************************************************************************)
(* The indexers' staging buffers                                           *)
(***************************************************************************)
Row(kind, height, hash, n) == [kind |-> kind, block |-> height, tx_hash |-> <<hash, n>>]

\* BitcoinUtxoIndexer::index_transaction: an Input row for a transaction that
\* is not the coinbase, then an Output row
BitcoinIndexTransaction(height, hash, n) ==
    (IF n = 0 THEN <<>> ELSE <<Row("input", height, hash, n)>>)
        \o <<Row("output", height, hash, n)>>

\* RunesIndexer::index_transaction: nothing for the coinbase; an ordinary
\* transaction etches a rune and stages the RuneOutput holding its premine
RunesIndexTransaction(height, hash, n) ==
    IF n = 0 THEN <<>>
    ELSE <<Row("rune", height, hash, n), Row("rune_output", height, hash, n)>>

\* push onto a Vec (BlockData of the bitcoin indexer)
RECURSIVE Push(_, _)
Push(ds, new) == IF new = <<>> THEN ds ELSE Push(Append(ds, Head(new)), Tail(new))

\* State::store_new_rune inserts into a HashMap keyed by the rune, and
\* State::commit_state keeps one row per (tx_hash, vout, rune): a row staged
\* twice is written once
RECURSIVE PushUnique(_, _)
PushUnique(ds, new) ==
    IF new = <<>> THEN ds
    ELSE IF \E i \in DOMAIN ds : ds[i] = Head(new) THEN PushUnique(ds, Tail(new))
    ELSE PushUnique(Append(ds, Head(new)), Tail(new))

\* what TxIndexer::index_transaction stages for transaction n of the block
TxRows(height, hash, n) ==
    IF opts.indexer_type = "BitcoinUtxo" THEN BitcoinIndexTransaction(height, hash, n)
    ELSE RunesIndexTransaction(height, hash, n)

Staged(ds, new) ==
    IF opts.indexer_type = "BitcoinUtxo" THEN Push(ds, new) ELSE PushUnique(ds, new)

\* TxIndexer::reset_state
reset_state == <<>>

(***************************************************************************)
(* Rt: the indexing runtime (indexer/rt.rs)                                *)
(***************************************************************************)
Fault == /\ faults < MaxFaults
         /\ faults' = faults + 1
NoFault == faults' = faults

\* Rt::starting_block, the checkpoint is read
StartingBlockOk ==
    /\ pc = "starting_block"
    /\ last_indexed_block # NoRow
    /\ first_block' = Max(IF last_indexed_block > 0 THEN last_indexed_block + 1 ELSE 0,
                          opts.starting_height)
    /\ pc' = "get_block_count"
    /\ NoFault
    /\ UNCHANGED <<nodeVars, storeVars, opts, current_block, last_block, dataset, blk, txi,
                   walk, ret, restarts, histVars>>
    /\ UNCHANGED notRtVars

\* Rt::starting_block, get_last_indexed_block returns Err (there is no row, or
\* the query failed): height 0 is written, and a failure to write is logged
StartingBlockErr ==
    /\ pc = "starting_block"
    /\ \/ last_indexed_block = NoRow /\ NoFault
       \/ last_indexed_block # NoRow /\ Fault
    /\ last_indexed_block' = 0
    /\ first_block' = Max(0, opts.starting_height)
    /\ pc' = "get_block_count"
    /\ UNCHANGED <<nodeVars, tableVars, opts, current_block, last_block, dataset, blk, txi,
                   walk, ret, restarts, histVars>>
    /\ UNCHANGED notRtVars

StartingBlockErrErr ==
    /\ pc = "starting_block"
    /\ last_indexed_block = NoRow
    /\ Fault
    /\ first_block' = Max(0, opts.starting_height)
    /\ pc' = "get_block_count"
    /\ UNCHANGED <<nodeVars, storeVars, opts, current_block, last_block, dataset, blk, txi,
                   walk, ret, restarts, histVars>>
    /\ UNCHANGED notRtVars

\* Rt::_run, the first get_block_count
GetBlockCount ==
    /\ pc = "get_block_count"
    /\ \/ /\ NoFault
          /\ current_block' = first_block
          /\ pc' = "loop"
       \/ /\ Fault
          /\ pc' = "run_failed"
          /\ UNCHANGED current_block
    /\ UNCHANGED <<nodeVars, storeVars, opts, last_block, first_block, dataset, blk, txi,
                   walk, ret, restarts, histVars>>
    /\ UNCHANGED notRtVars

\* Rt::_run, the head of the loop, the token not cancelled: waits while
\* best_block < current_block
Loop ==
    /\ pc = "loop"
    /\ ~cancel
    /\ \/ /\ NoFault
          /\ best_block >= current_block
          /\ pc' = "index_block"
       \/ /\ Fault
          /\ pc' = "run_failed"
    /\ UNCHANGED <<nodeVars, storeVars, opts, current_block, last_block, first_block, dataset,
                   blk, txi, walk, ret, restarts, histVars>>
    /\ UNCHANGED notRtVars

\* Rt::index_block: fetch_block, then the fork check
FetchBlock ==
    /\ pc = "index_block"
    /\ NoFault
    /\ LET block_hash == HashAt(current_block)
           prev_blockhash == headers[block_hash]
       IN /\ blk' = block_hash
          /\ IF last_block # None /\ last_block # prev_blockhash
             THEN /\ walk' = prev_blockhash
                  /\ fork_root' = ForkRootHeight(prev_blockhash)
                  /\ pc' = "find_fork_root"
                  /\ UNCHANGED txi
             ELSE /\ txi' = 0
                  /\ pc' = "index_transaction"
                  /\ UNCHANGED <<walk, fork_root>>
    /\ UNCHANGED <<nodeVars, storeVars, opts, current_block, last_block, first_block, dataset,
                   ret, restarts, committed>>
    /\ UNCHANGED notRtVars

FetchBlockErr ==
    /\ pc = "index_block"
    /\ Fault
    /\ pc' = "loop"
    /\ UNCHANGED <<nodeVars, storeVars, opts, current_block, last_block, first_block, dataset,
                   blk, txi, walk, ret, restarts, histVars>>
    /\ UNCHANGED notRtVars

\* Rt::find_fork_root, one turn of the loop: the BlockRecord is found
FindForkRootFound ==
    /\ pc = "find_fork_root"
    /\ walk # None
    /\ get_block(walk) # {}
    /\ NoFault
    /\ pc' = "drop_blocks"
    /\ UNCHANGED <<nodeVars, storeVars, opts, current_block, last_block, first_block, dataset,
                   blk, txi, walk, ret, restarts, histVars>>
    /\ UNCHANGED notRtVars

\* Rt::find_fork_root, one turn of the loop: get_block is not Ok (no such
\* BlockRecord, or the query failed) and the walk goes on with the parent
FindForkRootNext ==
    /\ pc = "find_fork_root"
    /\ walk # None
    /\ \/ get_block(walk) = {} /\ NoFault
       \/ get_block(walk) # {} /\ Fault
    /\ IF headers[walk] = None
       THEN pc' = "loop" /\ UNCHANGED walk
       ELSE walk' = headers[walk] /\ UNCHANGED pc
    /\ UNCHANGED <<nodeVars, storeVars, opts, current_block, last_block, first_block, dataset,
                   blk, txi, ret, restarts, histVars>>
    /\ UNCHANGED notRtVars

\* Rt::find_fork_root: get_block_header_info fails
FindForkRootErr ==
    /\ pc = "find_fork_root"
    /\ get_block(walk) = {}
    /\ Fault
    /\ pc' = "loop"
    /\ UNCHANGED <<nodeVars, storeVars, opts, current_block, last_block, first_block, dataset,
                   blk, txi, walk, ret, restarts, histVars>>
    /\ UNCHANGED notRtVars

\* Rt::find_fork_root called with the all-zero prev_blockhash of the block of
\* height 0: no BlockRecord has that hash and the node knows no such block,
\* get_block_header_info fails
FindForkRootNoBlock ==
    /\ pc = "find_fork_root"
    /\ walk = None
    /\ NoFault
    /\ pc' = "loop"
    /\ UNCHANGED <<nodeVars, storeVars, opts, current_block, last_block, first_block, dataset,
                   blk, txi, walk, ret, restarts, histVars>>
    /\ UNCHANGED notRtVars

\* Rt::index_block: the orphaned rows are dropped from root.height + 1
DropBlocks ==
    /\ pc = "drop_blocks"
    /\ NoFault
    /\ LET root == [height |-> HeightOf(walk), hash |-> walk]
       IN /\ IF ~opts.skip_inputs THEN drop_blocks(root.height + 1)
                                  ELSE drop_runes_blocks(root.height + 1)
          /\ ret' = <<root.height, root.hash, 0>>
          /\ committed' = {h \in committed : h <= root.height}
    /\ pc' = "ret"
    /\ UNCHANGED <<nodeVars, last_indexed_block, opts, current_block, last_block, first_block,
                   dataset, blk, txi, walk, restarts, fork_root>>
    /\ UNCHANGED notRtVars

DropBlocksErr ==
    /\ pc = "drop_blocks"
    /\ Fault
    /\ pc' = "loop"
    /\ UNCHANGED <<nodeVars, storeVars, opts, current_block, last_block, first_block, dataset,
                   blk, txi, walk, ret, restarts, histVars>>
    /\ UNCHANGED notRtVars

\* Rt::index_block: index_transaction of transaction txi
IndexTransaction ==
    /\ pc = "index_transaction"
    /\ NoFault
    /\ dataset' = Staged(dataset, TxRows(current_block, blk, txi))
    /\ txi' = txi + 1
    /\ IF txi + 1 < TxPerBlock
       THEN UNCHANGED <<pc, ret>>
       ELSE IF opts.dry_run
            THEN pc' = "ret" /\ ret' = <<current_block, blk, TxPerBlock>>
            ELSE pc' = "commit_state" /\ UNCHANGED ret
    /\ UNCHANGED <<nodeVars, storeVars, opts, current_block, last_block, first_block, blk,
                   walk, restarts, histVars>>
    /\ UNCHANGED notRtVars

\* RunesIndexer::_index_transaction fails: the read of the rune of an input
\* fails in unallocated(), before the transaction stages a row; what the
\* earlier transactions of the block staged stays in the buffer
IndexTransactionErr ==
    /\ pc = "index_transaction"
    /\ opts.indexer_type = "Runes"
    /\ txi > 0
    /\ Fault
    /\ pc' = "loop"
    /\ UNCHANGED <<nodeVars, storeVars, opts, current_block, last_block, first_block, dataset,
                   blk, txi, walk, ret, restarts, histVars>>
    /\ UNCHANGED notRtVars

\* TxIndexer::commit_state: one store transaction writes the staged rows, then
\* reset_state
CommitState ==
    /\ pc = "commit_state"
    /\ NoFault
    /\ outputs' = outputs (+) BagOfSeq(SelectKind(dataset, "output"))
    /\ inputs' = inputs (+) BagOfSeq(SelectKind(dataset, "input"))
    /\ runes' = runes (+) BagOfSeq(SelectKind(dataset, "rune"))
    /\ runes_outputs' = runes_outputs (+) BagOfSeq(SelectKind(dataset, "rune_output"))
    /\ dataset' = reset_state
    /\ committed' = committed \cup {current_block}
    /\ pc' = "insert_block"
    /\ UNCHANGED <<nodeVars, blocks, last_indexed_block, opts, current_block, last_block,
                   first_block, blk, txi, walk, ret, restarts, fork_root>>
    /\ UNCHANGED notRtVars

\* the store transaction fails: nothing is written, the error is returned
\* before reset_state
CommitStateErr ==
    /\ pc = "commit_state"
    /\ Fault
    /\ pc' = "loop"
    /\ UNCHANGED <<nodeVars, storeVars, opts, current_block, last_block, first_block, dataset,
                   blk, txi, walk, ret, restarts, histVars>>
    /\ UNCHANGED notRtVars

\* Rt::index_block: DB::insert_block
InsertBlock ==
    /\ pc = "insert_block"
    /\ NoFault
    /\ blocks' = blocks \cup {[height |-> current_block, hash |-> blk, indexer |-> name]}
    /\ ret' = <<current_block, blk, TxPerBlock>>
    /\ pc' = "ret"
    /\ UNCHANGED <<nodeVars, outputs, inputs, runes, runes_outputs, last_indexed_block, opts,
                   current_block, last_block, first_block, dataset, blk, txi, walk, restarts,
                   histVars>>
    /\ UNCHANGED notRtVars

InsertBlockErr ==
    /\ pc = "insert_block"
    /\ Fault
    /\ pc' = "loop"
    /\ UNCHANGED <<nodeVars, storeVars, opts, current_block, last_block, first_block, dataset,
                   blk, txi, walk, ret, restarts, histVars>>
    /\ UNCHANGED notRtVars

\* Rt::_run: index_block returned the fork root
IsForkReturn == ret[1] < current_block \/ ret[3] = 0

ForkReset ==
    /\ pc = "ret"
    /\ IsForkReturn
    /\ NoFault
    /\ IF ~opts.dry_run THEN last_indexed_block' = ret[1]
                        ELSE UNCHANGED last_indexed_block
    /\ last_block' = ret[2]
    /\ current_block' = ret[1] + 1
    /\ pc' = "loop"
    /\ UNCHANGED <<nodeVars, tableVars, opts, first_block, dataset, blk, txi, walk, ret,
                   restarts, histVars>>
    /\ UNCHANGED notRtVars

ForkResetErr ==
    /\ pc = "ret"
    /\ IsForkReturn
    /\ ~opts.dry_run
    /\ Fault
    /\ pc' = "run_failed"
    /\ UNCHANGED <<nodeVars, storeVars, opts, current_block, last_block, first_block, dataset,
                   blk, txi, walk, ret, restarts, histVars>>
    /\ UNCHANGED notRtVars

\* Rt::_run: index_block returned the processed block; a failure of
\* update_last_block is logged and the loop goes on
ProcessedBlock ==
    /\ pc = "ret"
    /\ ~IsForkReturn
    /\ \/ /\ NoFault
          /\ IF ~opts.dry_run THEN last_indexed_block' = current_block
                              ELSE UNCHANGED last_indexed_block
       \/ /\ ~opts.dry_run
          /\ Fault
          /\ UNCHANGED last_indexed_block
    /\ last_block' = ret[2]
    /\ current_block' = current_block + 1
    /\ pc' = "loop"
    /\ UNCHANGED <<nodeVars, tableVars, opts, first_block, dataset, blk, txi, walk, ret,
                   restarts, histVars>>
    /\ UNCHANGED notRtVars

\* Rt::run: _run returned false; with retry_on_fail the state is reset after
\* the wait and the loop of run goes on unless the token is cancelled
RunFailed ==
    /\ pc = "run_failed"
    /\ IF opts.retry_on_fail
       THEN /\ dataset' = reset_state
            /\ pc' = IF cancel THEN "stopped" ELSE "starting_block"
       ELSE pc' = "stopped" /\ UNCHANGED dataset
    /\ UNCHANGED <<nodeVars, storeVars, opts, current_block, last_block, first_block, blk,
                   txi, walk, ret, envVars, histVars>>
    /\ UNCHANGED notRtVars

\* the process stops (it is killed, or the host goes down)
Stop ==
    /\ pc # "stopped"
    /\ restarts < MaxRestarts
    /\ pc' = "stopped"
    /\ UNCHANGED <<nodeVars, storeVars, opts, current_block, last_block, first_block, dataset,
                   blk, txi, walk, ret, envVars, histVars>>
    /\ UNCHANGED notRtVars

\* the process is started again: BlockIndexerRt::start, Rt::new
Restart ==
    /\ pc = "stopped"
    /\ restarts < MaxRestarts
    /\ restarts' = restarts + 1
    /\ \E d \in BOOLEAN : opts' = [opts EXCEPT !.dry_run = d]
    /\ last_block' = None
    /\ dataset' = <<>>
    /\ pc' = "starting_block"
    /\ UNCHANGED <<nodeVars, storeVars, current_block, first_block, blk, txi, walk, ret,
                   faults, histVars>>
    /\ UNCHANGED notRtVars

RtInit ==
    /\ chain = << <<0, 0>> >>
    /\ headers = [x \in { <<0, 0>> } |-> None]
    /\ forks = 0
    /\ blocks = {}
    /\ outputs = EmptyBag
    /\ inputs = EmptyBag
    /\ runes = EmptyBag
    /\ runes_outputs = EmptyBag
    /\ last_indexed_block \in {NoRow, 0}
    /\ opts \in OptsSet
    /\ pc = "starting_block"
    /\ current_block = 0
    /\ last_block = None
    /\ first_block = 0
    /\ dataset = <<>>
    /\ blk = None
    /\ txi = 0
    /\ walk = None
    /\ ret = <<0, None, 0>>
    /\ faults = 0
    /\ restarts = 0
    /\ committed = {}
    /\ fork_root = -1
    /\ cancel = FALSE
    /\ cancelled_at = -1

Init ==
    /\ RtInit
    /\ StatusIdle
    /\ AddressIdle
    /\ CollectorIdle
    /\ ReserveIdle
    /\ RunesIdle
    /\ MempoolIdle
    /\ PureIdle

Next ==
    \/ NodeMine
    \/ NodeReorg
    \/ StartingBlockOk
    \/ StartingBlockErr
    \/ StartingBlockErrErr
    \/ GetBlockCount
    \/ Loop
    \/ FetchBlock
    \/ FetchBlockErr
    \/ FindForkRootFound
    \/ FindForkRootNext
    \/ FindForkRootErr
    \/ FindForkRootNoBlock
    \/ DropBlocks
    \/ DropBlocksErr
    \/ IndexTransaction
    \/ IndexTransactionErr
    \/ CommitState
    \/ CommitStateErr
    \/ InsertBlock
    \/ InsertBlockErr
    \/ ForkReset
    \/ ForkResetErr
    \/ ProcessedBlock
    \/ RunFailed
    \/ Stop
    \/ Restart

Spec == Init /\ [][Next]_vars

(***************************************************************************)
(* The two indexers of the command `indexer` on one store                  *)
(***************************************************************************)
\* the name of the other indexer of the command
other_name == IF opts.indexer_type = "BitcoinUtxo" THEN "runes_utxo_index" ELSE "btc_utxo_index"

\* the BlockRecords of the other indexer
OtherBlocks == {b \in blocks : b.indexer = other_name}

\* what the other indexer stages for the transactions of a block from n on
RECURSIVE OtherBlockRows(_, _, _)
OtherBlockRows(height, hash, n) ==
    IF n >= TxPerBlock THEN <<>>
    ELSE (IF opts.indexer_type = "BitcoinUtxo"
          THEN RunesIndexTransaction(height, hash, n)
          ELSE BitcoinIndexTransaction(height, hash, n))
            \o OtherBlockRows(height, hash, n + 1)

\* the runtime of the other indexer, which follows the best chain, indexes
\* its next block: commit_state, insert_block
OtherIndexerCommit ==
    /\ \A b \in OtherBlocks : b.height <= best_block /\ HashAt(b.height) = b.hash
    /\ LET height == Cardinality(OtherBlocks)
           staged == IF height <= best_block
                     THEN OtherBlockRows(height, HashAt(height), 0) ELSE <<>>
       IN  /\ height <= best_block
           /\ outputs' = outputs (+) BagOfSeq(SelectKind(staged, "output"))
           /\ inputs' = inputs (+) BagOfSeq(SelectKind(staged, "input"))
           /\ runes' = runes (+) BagOfSeq(SelectKind(staged, "rune"))
           /\ runes_outputs' = runes_outputs (+) BagOfSeq(SelectKind(staged, "rune_output"))
           /\ blocks' = blocks \cup {[height |-> height, hash |-> HashAt(height),
                                      indexer |-> other_name]}
    /\ UNCHANGED <<nodeVars, last_indexed_block, rtVars, envVars, histVars>>
    /\ UNCHANGED notRtVars

\* the runtime is started on a store with a checkpoint, outside dry-run mode
SharedInit ==
    /\ Init
    /\ last_indexed_block = 0
    /\ ~opts.dry_run

\* the steps of the runtime while no call of the store or of the node fails
\* and the process is not stopped, and those of the other indexer
SharedNext ==
    \/ NodeMine
    \/ NodeReorg
    \/ StartingBlockOk
    \/ GetBlockCount
    \/ Loop
    \/ FetchBlock
    \/ FindForkRootFound
    \/ FindForkRootNext
    \/ DropBlocks
    \/ IndexTransaction
    \/ CommitState
    \/ InsertBlock
    \/ ForkReset
    \/ ProcessedBlock
    \/ OtherIndexerCommit

\* the runtime, with the other indexer of the command at work on the store
SpecShared == SharedInit /\ [][SharedNext]_vars

(***************************************************************************)
(* The runtime under the CancellationToken of the command                  *)
(***************************************************************************)
\* the positions of Rt::_run between the call of index_block and the update
\* of the checkpoint that follows its return
InProgress == {"index_block", "find_fork_root", "drop_blocks", "index_transaction",
               "commit_state", "insert_block", "ret"}

\* the command receives ctrl-c and calls cancel.cancel()
Cancel ==
    /\ ~cancel
    /\ pc # "stopped"
    /\ cancel' = TRUE
    /\ cancelled_at' = IF pc \in InProgress THEN current_block ELSE -1
    /\ UNCHANGED <<allRtVars, collectorVars, reserveVars, runesVars, mempoolVars, pureVars,
                   statusVars, addressVars>>

\* Rt::_run, the head of the loop, the token cancelled: _run returns true and
\* run breaks
LoopCancelled ==
    /\ pc = "loop"
    /\ cancel
    /\ pc' = "stopped"
    /\ UNCHANGED <<nodeVars, storeVars, opts, current_block, last_block, first_block, dataset,
                   blk, txi, walk, ret, envVars, histVars>>
    /\ UNCHANGED notRtVars

CancelNext ==
    \/ NodeMine
    \/ NodeReorg
    \/ StartingBlockOk
    \/ StartingBlockErr
    \/ StartingBlockErrErr
    \/ GetBlockCount
    \/ Loop
    \/ FetchBlock
    \/ FetchBlockErr
    \/ FindForkRootFound
    \/ FindForkRootNext
    \/ FindForkRootErr
    \/ FindForkRootNoBlock
    \/ DropBlocks
    \/ DropBlocksErr
    \/ IndexTransaction
    \/ IndexTransactionErr
    \/ CommitState
    \/ CommitStateErr
    \/ InsertBlock
    \/ InsertBlockErr
    \/ ForkReset
    \/ ForkResetErr
    \/ ProcessedBlock
    \/ RunFailed
    \/ Cancel
    \/ LoopCancelled

SpecCancel == Init /\ [][CancelNext]_vars

\* the steps of the runtime
RtStep ==
    \/ StartingBlockOk
    \/ StartingBlockErr
    \/ StartingBlockErrErr
    \/ GetBlockCount
    \/ Loop
    \/ FetchBlock
    \/ FetchBlockErr
    \/ FindForkRootFound
    \/ FindForkRootNext
    \/ FindForkRootErr
    \/ FindForkRootNoBlock
    \/ DropBlocks
    \/ DropBlocksErr
    \/ IndexTransaction
    \/ IndexTransactionErr
    \/ CommitState
    \/ CommitStateErr
    \/ InsertBlock
    \/ InsertBlockErr
    \/ ForkReset
    \/ ForkResetErr
    \/ ProcessedBlock
    \/ RunFailed
    \/ LoopCancelled

\* the blocking task of the runtime keeps running
FairSpecCancel == SpecCancel /\ WF_vars(RtStep)

TypeOK ==
    /\ pc \in {"starting_block", "get_block_count", "loop", "index_block", "find_fork_root",
               "drop_blocks", "index_transaction", "commit_state", "insert_block", "ret",
               "run_failed", "stopped"}
    /\ faults \in 0..MaxFaults
    /\ current_block \in 0..(MaxHeight + 1)

(***************************************************************************)
(* Part I, the claims                                                      *)
(***************************************************************************)
\* the rows of the running indexer: the bitcoin indexer writes outputs and
\* inputs, the runes indexer runes and runes_outputs
OwnRows ==
    IF opts.indexer_type = "BitcoinUtxo"
    THEN BagToSet(outputs) \cup BagToSet(inputs)
    ELSE BagToSet(runes) \cup BagToSet(runes_outputs)

OwnBlocks == {b \in blocks : b.indexer = name}

NothingAbove(r) ==
    /\ \A b \in OwnBlocks : b.height <= r
    /\ \A row \in OwnRows : row.block <= r

\* the step of index_block that drops the orphaned rows
Rewinds == pc = "drop_blocks" /\ pc' = "ret"

\* the rows a step deletes from a table
Deleted(table) == {r \in BagToSet(table) : CopiesIn(r, table') < CopiesIn(r, table)}

\* C26: a rewind deletes BlockRecords of the rewinding indexer only, at heights
\* >= root + 1; a rewind by the runes indexer deletes rune and rune-output
\* rows at heights >= root + 1 only and leaves the tables outputs and inputs
\* as they are, whatever the configuration.
C26_RewindFrame ==
    [][Rewinds =>
          /\ \A b \in blocks \ blocks' : b.indexer = name /\ b.height >= HeightOf(walk) + 1
          /\ opts.indexer_type = "Runes" =>
                /\ \A r \in Deleted(runes) \cup Deleted(runes_outputs) :
                       r.block >= HeightOf(walk) + 1
                /\ outputs' = outputs
                /\ inputs' = inputs]_vars

\* the tables the other indexer writes
OtherTables ==
    IF opts.indexer_type = "BitcoinUtxo" THEN <<runes, runes_outputs>> ELSE <<outputs, inputs>>

\* C27: with the bitcoin indexer and the runes indexer at work on one store, no
\* step of the one deletes or changes a row or a BlockRecord the other has
\* committed: what the runes indexer committed stays until the runes indexer
\* itself rewinds, and so for the bitcoin indexer.
C27_Isolation ==
    [][/\ OtherBlocks \subseteq OtherBlocks'
       /\ OtherTables[1] \sqsubseteq OtherTables[1]'
       /\ OtherTables[2] \sqsubseteq OtherTables[2]']_vars

\* the store holds rows of height h; the runtime's BlockRecord of h; the
\* checkpoint has reached h
RowsOf(h) == h \in committed
RecordOf(h) == \E b \in blocks : b.height = h /\ b.indexer = name
CheckpointAt(h) == last_indexed_block # NoRow /\ last_indexed_block >= h

\* the block of height h is committed completely, or not at all
AllOrNothing(h) ==
    \/ RowsOf(h) /\ RecordOf(h) /\ CheckpointAt(h)
    \/ ~RowsOf(h) /\ ~RecordOf(h)

\* C28: once the token is cancelled the runtime starts no further block, and
\* when it has terminated the block that was in progress at the moment of the
\* signal is committed completely (rows, BlockRecord and checkpoint) or not at
\* all
C28_Cancellation ==
    [][/\ cancel => ~(pc # "index_block" /\ pc' = "index_block")
       /\ (cancel' /\ pc' = "stopped" /\ cancelled_at' >= 0 /\ ~opts.dry_run)
              => AllOrNothing(cancelled_at)']_vars

\* a call of the node fails on the indexing path: get_block_count in _run,
\* get_block_hash or get_by_id in fetch_block, get_block_header_info in
\* find_fork_root
NodeError ==
    \/ /\ pc \in {"get_block_count", "loop", "index_block"}
       /\ faults' = faults + 1
    \/ /\ pc = "find_fork_root"
       /\ get_block(walk) = {}
       /\ \/ faults' = faults + 1
          \/ walk = None /\ pc' # pc

\* C29: a node error on the indexing path makes _run return false, so that
\* run exits when retry_on_fail is disabled and waits the
\* indexer-wait-interval before it retries when retry_on_fail is enabled
C29_NodeErrors == [][NodeError => pc' = "run_failed"]_vars

\* Rt::_run has called starting_block
Started == pc = "starting_block" /\ pc' = "get_block_count"

\* C30: on startup the first height indexed is max(checkpoint + 1, configured
\* start height) for every stored checkpoint, 0 included, and when there is no
\* checkpoint row a checkpoint of 0 is written
C30_StartingHeight ==
    [][Started =>
          /\ last_indexed_block # NoRow
                => first_block' = Max(last_indexed_block + 1, opts.starting_height)
          /\ last_indexed_block = NoRow => last_indexed_block' = 0]_vars

\* C36: the BlockRecords of the indexer form one chain: at most one record
\* per height, and of two records at the heights h and h + 1 the second names
\* a block whose parent is the block of the first; also after the chain was
\* reorganized while the runtime was stopped
C36_OneChain ==
    \A b1 \in OwnBlocks : \A b2 \in OwnBlocks :
        /\ b1.height = b2.height => b1.hash = b2.hash
        /\ b2.height = b1.height + 1 => headers[b2.hash] = b1.hash

\* C39: in dry-run mode no step of the runtime changes the store: no row is
\* committed or deleted, no BlockRecord inserted, the checkpoint left alone
C39_DryRunFrame == [][opts.dry_run => UNCHANGED storeVars]_vars

\* the runtime terminates after the token is cancelled
Terminates == cancel ~> (pc = "stopped")

\* the step of _run that ends the handling of a fork
ForkHandled == pc = "ret" /\ IsForkReturn /\ pc' = "loop"

C3_CommitIsAtomic ==
    \A row \in OwnRows :
        /\ \E b \in OwnBlocks : b.height = row.block
        /\ last_indexed_block >= row.block

\* C4 (as stated): commit_state is never called for a height whose commit
\* already succeeded and was not rewound by a reorg.
C4_NoSecondCommit == pc = "commit_state" => current_block \notin committed

\* C5 (as stated): outside dry-run mode the staging buffer is empty whenever an
\* attempt to index a height starts, also after a failed attempt.
C5_StagingEmptyOnRetry == (pc = "index_block" /\ ~opts.dry_run) => dataset = <<>>

\* C10 (as stated): the stored checkpoint decreases only in the step that ends
\* the handling of a reorg.
C10_CheckpointMonotone ==
    [][last_indexed_block' >= last_indexed_block \/ (pc = "ret" /\ IsForkReturn)]_vars

\* the step in which commit_state of the block at current_block succeeds
Commits == pc = "commit_state" /\ pc' = "insert_block"

\* C11 (as stated): within one runtime (here the first one, before any
\* restart of the process) the heights committed ascend in steps of one: a
\* commit of height H finds committed, and not rewound by a reorg, exactly the
\* heights below H that the runtime indexed, H - 1 among them, and not H.
C11_AscendingHeights ==
    [][(Commits /\ restarts = 0) =>
          /\ \A h \in committed : h < current_block
          /\ committed # {} => (current_block - 1) \in committed]_vars

\* C12 (as stated): a reader never sees a checkpoint >= H while the rows of
\* block H are not in the store (every block holds transactions that leave
\* rows; H = 0 is left out, as height 0 is also what is written when there
\* is no checkpoint).
C12_CommitBeforeCheckpoint ==
    \A h \in 1..last_indexed_block : \E row \in OwnRows : row.block = h

(***************************************************************************)
(* Part II: the UTXO collector (service/utxo_collector/algo.rs)            *)
(***************************************************************************)
\* the amounts of the candidates: those of the tests of algo.rs, and 0
AmountSet == {0, 20, 30, 40, 50, 60, 80, 100}

\* Option::None of binary_search_next_ge_than
NotFound == -1

\* Utxo::get_amount
get_amount(u) == u.amount

RECURSIVE Sum(_)
Sum(us) == IF us = <<>> THEN 0 ELSE get_amount(Head(us)) + Sum(Tail(us))

Amounts(us) == [i \in DOMAIN us |-> get_amount(us[i])]

\* INVARIANT of min_utxos_to_reach_target: sorted in descending order by amount
SortedDesc(s) == \A i \in 1..(Len(s) - 1) : s[i] >= s[i + 1]

CandidateLists ==
    UNION { {s \in [1..n -> AmountSet] : SortedDesc(s)} : n \in 0..MaxLen }

ToUtxos(s) == [i \in DOMAIN s |-> [id |-> i, amount |-> s[i]]]

\* slice::binary_search_by with the comparator of binary_search_next_ge_than
\* (Less for an amount above the target, Greater otherwise, never Equal): the
\* search narrows [left, right) and ends in Err(left); indices count from 0
RECURSIVE binary_search_by(_, _, _, _)
binary_search_by(arr, t, left, right) ==
    IF left >= right THEN left
    ELSE LET mid == left + ((right - left) \div 2)
         IN IF get_amount(arr[mid + 1]) > t
            THEN binary_search_by(arr, t, mid + 1, right)
            ELSE binary_search_by(arr, t, left, mid)

\* (mutation of binary_search_next_ge_than: the first element that covers t)
binary_search_first_ge_than(arr, t) ==
    IF get_amount(arr[1]) >= t THEN 0 ELSE NotFound

\* binary_search_next_ge_than
binary_search_next_ge_than(arr, t) ==
    LET index == binary_search_by(arr, t, 0, Len(arr))
    IN IF index < Len(arr) /\ get_amount(arr[index + 1]) >= t THEN index
       ELSE IF index > 0 /\ get_amount(arr[index]) >= t THEN index - 1
       ELSE NotFound

\* (mutation of LoopCond: the loop goes on while collected <= target)
LoopCondLe(c, t) == c <= t

\* min_utxos_to_reach_target: the condition of the while loop
LoopCond(c, t) == c < t

\* (mutation of Pick: idx is not advanced past the element taken)
PickNoAdvance(subset, remaining, i) == [idx |-> i, utxo |-> subset[1]]

\* min_utxos_to_reach_target, the body of the loop: the element picked from
\* subset = utxos[idx..] and the new value of idx
Pick(subset, remaining, i) ==
    IF get_amount(subset[1]) >= remaining
    THEN LET found == binary_search_next_ge_than(subset, remaining)
         IN IF found # NotFound
            THEN [idx |-> found, utxo |-> subset[found + 1]]
            ELSE [idx |-> i + 1, utxo |-> subset[1]]
    ELSE [idx |-> i + 1, utxo |-> subset[1]]

\* KnapsackError::NotEnoughBalance
NotEnoughBalance(available, t) == [ok |-> FALSE, available |-> available, target |-> t]
Ok(us) == [ok |-> TRUE, utxos |-> us]

\* min_utxos_to_reach_target as a function: the loop, from the state
\* (result, collected, idx) on
RECURSIVE min_utxos_loop(_, _, _, _, _)
min_utxos_loop(us, t, res, col, i) ==
    IF ~LoopCond(col, t) THEN Ok(res)
    ELSE LET subset == SubSeq(us, i + 1, Len(us))
         IN IF subset = <<>> THEN NotEnoughBalance(col, t)
            ELSE LET p == Pick(subset, t - col, i)
                 IN min_utxos_loop(us, t, Append(res, p.utxo), col + get_amount(p.utxo), p.idx)

min_utxos_to_reach_target(us, t) ==
    IF us = <<>> THEN NotEnoughBalance(0, t) ELSE min_utxos_loop(us, t, <<>>, 0, 0)

\* min_utxos_to_reach_target is entered: the check for an empty slice
MinUtxosEnter ==
    /\ kpc = "call"
    /\ IF utxos = <<>>
       THEN /\ kret' = NotEnoughBalance(0, target)
            /\ kpc' = "done"
            /\ UNCHANGED <<result, collected, idx>>
       ELSE /\ result' = <<>>
            /\ collected' = 0
            /\ idx' = 0
            /\ kpc' = "loop"
            /\ UNCHANGED kret
    /\ UNCHANGED <<utxos, target, allRtVars, cancelVars, statusVars, addressVars, reserveVars, runesVars, mempoolVars, pureVars>>

\* one turn of the while loop
MinUtxosLoop ==
    /\ kpc = "loop"
    /\ LoopCond(collected, target)
    /\ LET subset == SubSeq(utxos, idx + 1, Len(utxos))
       IN IF subset = <<>>
          THEN /\ kret' = NotEnoughBalance(collected, target)
               /\ kpc' = "done"
               /\ UNCHANGED <<result, collected, idx>>
          ELSE LET p == Pick(subset, target - collected, idx)
               IN /\ idx' = p.idx
                  /\ collected' = collected + get_amount(p.utxo)
                  /\ result' = Append(result, p.utxo)
                  /\ UNCHANGED <<kpc, kret>>
    /\ UNCHANGED <<utxos, target, allRtVars, cancelVars, statusVars, addressVars, reserveVars, runesVars, mempoolVars, pureVars>>

\* the loop is left: Ok(result)
MinUtxosReturn ==
    /\ kpc = "loop"
    /\ ~LoopCond(collected, target)
    /\ kret' = Ok(result)
    /\ kpc' = "done"
    /\ UNCHANGED <<utxos, target, result, collected, idx, allRtVars, cancelVars, statusVars, addressVars, reserveVars, runesVars, mempoolVars, pureVars>>

\* the runtime does not run
RtIdle ==
    /\ RtInit
    /\ last_indexed_block = NoRow
    /\ opts = [indexer_type |-> "BitcoinUtxo", dry_run |-> FALSE, starting_height |-> 0,
               retry_on_fail |-> TRUE, skip_inputs |-> FALSE]

\* a call of min_utxos_to_reach_target(utxos, target)
CollectorInit ==
    /\ RtIdle
    /\ StatusIdle
    /\ AddressIdle
    /\ ReserveIdle
    /\ RunesIdle
    /\ MempoolIdle
    /\ PureIdle
    /\ \E s \in CandidateLists : utxos = ToUtxos(s)
    /\ target \in 1..MaxTarget
    /\ result = <<>>
    /\ collected = 0
    /\ idx = 0
    /\ kpc = "call"
    /\ kret = None

CollectorNext ==
    \/ MinUtxosEnter
    \/ MinUtxosLoop
    \/ MinUtxosReturn

SpecCollector == CollectorInit /\ [][CollectorNext]_vars

\* the function is a sequential computation: it takes its next step
FairSpecCollector == SpecCollector /\ WF_vars(CollectorNext)

CollectorTypeOK ==
    /\ kpc \in {"call", "loop", "done"}
    /\ idx \in 0..Len(utxos)
    /\ Len(result) <= Len(utxos)
    /\ kpc = "done" => kret = min_utxos_to_reach_target(utxos, target)

(***************************************************************************)
(* Part II, the claims                                                     *)
(***************************************************************************)
Returned == kpc = "done"
ReturnedOk == kpc = "done" /\ kret.ok

\* the sum of the amounts of the candidates at the positions in S
RECURSIVE SumAt(_)
SumAt(S) ==
    IF S = {} THEN 0
    ELSE LET i == CHOOSE x \in S : TRUE
         IN get_amount(utxos[i]) + SumAt(S \ {i})

\* C7: for candidates sorted by amount descending and a target >= 1, when
\* min_utxos_to_reach_target returns Ok the amounts of the result sum to at
\* least the target, and no subset of the candidates that reaches the target
\* has fewer elements than the result.
C7_MinimalCardinality ==
    ReturnedOk =>
        /\ Sum(kret.utxos) >= target
        /\ \A S \in SUBSET (1..Len(utxos)) :
              SumAt(S) >= target => Cardinality(S) >= Len(kret.utxos)

\* Ok is returned with a result of three elements whose last one is not the
\* largest candidate that was left
C7_Witness ==
    /\ ReturnedOk
    /\ Len(kret.utxos) = 3
    /\ kret.utxos[3].id > 3

\* the amount that is left to collect after the k largest candidates
Remaining(k) == target - Sum(SubSeq(utxos, 1, k))

\* what binary_search_next_ge_than is to return for arr and t: the index of an
\* element of the smallest amount among those >= t, None when there is none
IsNextGe(arr, t, f) ==
    IF \E i \in DOMAIN arr : get_amount(arr[i]) >= t
    THEN /\ f # NotFound
         /\ f + 1 \in DOMAIN arr
         /\ get_amount(arr[f + 1]) >= t
         /\ \A i \in DOMAIN arr :
               get_amount(arr[i]) >= t => get_amount(arr[i]) >= get_amount(arr[f + 1])
    ELSE f = NotFound

\* the picks on the candidates [50, 40, 30, 20]
ExamplePicks ==
    Amounts(utxos) = <<50, 40, 30, 20>> =>
        /\ target = 70 => Amounts(kret.utxos) = <<50, 20>>
        /\ target = 71 => Amounts(kret.utxos) = <<50, 30>>
        /\ target = 100 => Amounts(kret.utxos) = <<50, 40, 20>>

\* the searches on [100, 80, 60, 40, 20]
ExampleSearches ==
    Amounts(utxos) = <<100, 80, 60, 40, 20>> =>
        LET f == binary_search_next_ge_than(utxos, target)
        IN /\ target = 90 => f = 0
           /\ target = 70 => f = 1
           /\ target = 105 => f = NotFound
           /\ target = 100 => f = 0
           /\ target = 20 => f = 4
           /\ target = 1 => f = 4

\* C8: for descending candidates and a reachable target the result is the
\* largest candidates in order, for as long as the largest unused one does not
\* cover the remaining amount, followed by an unused candidate of the smallest
\* amount that is >= the remaining amount ([50,40,30,20]: 70 gives [50,20], 71
\* gives [50,30], 100 gives [50,40,20]); binary_search_next_ge_than returns the
\* index of the smallest covering element, None when no element covers.
C8_ExactPick ==
    /\ (Returned /\ Sum(utxos) >= target) =>
          /\ kret.ok
          /\ kret.utxos # <<>>
          /\ LET r == kret.utxos
                 k == Len(r) - 1
                 last == r[k + 1]
             IN /\ SubSeq(r, 1, k) = SubSeq(utxos, 1, k)
                /\ \A j \in 1..k : get_amount(utxos[j]) < Remaining(j - 1)
                /\ get_amount(utxos[k + 1]) >= Remaining(k)
                /\ \E i \in (k + 1)..Len(utxos) : utxos[i] = last
                /\ get_amount(last) >= Remaining(k)
                /\ \A i \in (k + 1)..Len(utxos) :
                      get_amount(utxos[i]) >= Remaining(k)
                          => get_amount(utxos[i]) >= get_amount(last)
          /\ ExamplePicks
    /\ utxos # <<>> => IsNextGe(utxos, target, binary_search_next_ge_than(utxos, target))
    /\ utxos # <<>> => ExampleSearches

\* [50, 40, 30, 20] with target 71 has returned [50, 30]
C8_Witness ==
    /\ ReturnedOk
    /\ Amounts(utxos) = <<50, 40, 30, 20>>
    /\ target = 71
    /\ Amounts(kret.utxos) = <<50, 30>>

\* the value returned is NotEnoughBalance exactly when the candidates sum to
\* less than the target, and then it carries the target and that sum
ErrIffShort ==
    Returned =>
        /\ ~kret.ok <=> Sum(utxos) < target
        /\ ~kret.ok => (kret.available = Sum(utxos) /\ kret.target = target)

\* C9: min_utxos_to_reach_target (target >= 1) returns NotEnoughBalance exactly
\* when the sum of all candidate amounts is below the target; the error carries
\* the target and available = the sum of all candidates (0 for an empty list);
\* and the loop halts.
C9_NotEnoughBalance == []ErrIffShort /\ <>Returned

\* NotEnoughBalance has been returned for a list of several candidates
C9_Witness ==
    /\ Returned
    /\ ~kret.ok
    /\ Len(utxos) >= 2
    /\ kret.available > 0
    /\ kret.available + 1 = target

(***************************************************************************)
(* Part III: the reservation of UTXOs (rest/api_btc.rs, rest/context.rs,   *)
(* cache/mod.rs)                                                           *)
(***************************************************************************)
\* the amounts of the UTXOs of the address
ReserveAmountSet == {1, 5}

\* list_utxos_with_lock: limit of a page; coolect_utxo_shortcut: limit
PageLimit == 200
ShortcutLimit == 10

\* a key that is not set in the reservation cache
Nil == "nil"
NO_ID == "p.j.fry"

\* the views the database can hold for the address
UtxoViews ==
    UNION { {ToUtxos(s) : s \in {x \in [1..n -> ReserveAmountSet] : SortedDesc(x)}} :
              n \in 0..MaxUtxos }

UtxoIds == 1..MaxUtxos

\* the request ids of the callers; "" is a request without an id
RequestIds == {"req-1", "req-2", "", NO_ID}

\* the sets of consumed UTXOs the mempool index can hold
MempoolViews == {{}, {MaxUtxos}}

Take(s, n) == SubSeq(s, 1, IF Len(s) < n THEN Len(s) ELSE n)

\* DB::get_balance
get_balance == Sum(utxo_view)

\* DB::select_utxos_with_amount_bounds
select_utxos_with_amount_bounds(limit, lower_bound, upper_bound) ==
    Take(SelectSeq(utxo_view,
                   LAMBDA u : get_amount(u) >= lower_bound /\ get_amount(u) <= upper_bound),
         limit)

\* DB::select_utxo_with_pagination, ordered by amount descending
select_utxo_with_pagination(limit, off) ==
    SubSeq(utxo_view, off + 1, IF Len(utxo_view) < off + limit THEN Len(utxo_view)
                                                                 ELSE off + limit)

\* (mutation of filter_used_utxos: nothing is filtered out)
filter_used_none(us) == us

\* MempoolCacheManager::filter_used_utxos
filter_used_utxos(us) == SelectSeq(us, LAMBDA u : u.id \notin mempool)

\* (mutation of check_is_locked: every key is a lock, whoever wrote it)
check_is_locked_any(id, request_id) == redis[id] # Nil

\* Repo::check_is_locked: GET of the key; request_id is an Option<String>
check_is_locked(id, request_id) ==
    IF redis[id] = Nil THEN FALSE
    ELSE IF redis[id] = NO_ID THEN TRUE
    ELSE Some(redis[id]) # request_id

\* Repo::lock_utxo: the value of the key
LockValue(request_id) == IF request_id = "" THEN "p.j.fry-rand" ELSE request_id

\* FBtcApiError::NotEnoughBalance
ApiNotEnoughBalance(required, available) ==
    [ok |-> FALSE, required |-> required, available |-> available]

\* FBtcApiError::InternalError, answered with status 500
ApiInternalError == [ok |-> FALSE, status |-> 500]

\* the request id the handler of caller c hands to filter_used_btc_utxos:
\* list_utxos passes None, list_utxos_with_lock Some(request.request_id)
RequestIdOf(c) ==
    IF request[c].kind = "list" THEN None ELSE Some(request[c].request_id)

\* the rows of a selection that are not consumed in the mempool index as it
\* is when the filter reads it
NotConsumed(us) == {us[i].id : i \in DOMAIN us} \ mempool

\* list_utxos_with_lock up to the balance check
ListUtxosWithLock(c) ==
    /\ hpc[c] = "start"
    /\ request[c].kind = "lock"
    /\ IF get_balance < request[c].amount
       THEN /\ resp' = [resp EXCEPT ![c] = ApiNotEnoughBalance(request[c].amount, get_balance)]
            /\ hpc' = [hpc EXCEPT ![c] = "done"]
            /\ UNCHANGED shortcut
       ELSE /\ hpc' = [hpc EXCEPT ![c] = "shortcut"]
            /\ shortcut' = [shortcut EXCEPT ![c] = TRUE]
            /\ UNCHANGED resp
    /\ UNCHANGED <<apiStoreVars, request, rows, ri, filtered, collected_utxos, offset, locking,
                   li, passed, allRtVars, cancelVars, statusVars, addressVars, collectorVars, runesVars, mempoolVars, pureVars>>

\* coolect_utxo_shortcut: the query, and the mempool filter that opens
\* filter_used_btc_utxos
ShortcutSelect(c) ==
    /\ hpc[c] = "shortcut"
    /\ LET target_amount == request[c].amount
           lower_bound == target_amount \div 10
           upper_bound == target_amount * 4
           selected == select_utxos_with_amount_bounds(ShortcutLimit, lower_bound, upper_bound)
       IN /\ rows' = [rows EXCEPT ![c] = filter_used_utxos(selected)]
          /\ passed' = [passed EXCEPT ![c] = @ \cup NotConsumed(selected)]
    /\ ri' = [ri EXCEPT ![c] = 1]
    /\ filtered' = [filtered EXCEPT ![c] = <<>>]
    /\ hpc' = [hpc EXCEPT ![c] = "filter"]
    /\ UNCHANGED <<apiStoreVars, request, shortcut, collected_utxos, offset, locking, li, resp,
                   allRtVars, cancelVars, statusVars, addressVars, collectorVars, runesVars, mempoolVars, pureVars>>

\* filter_used_btc_utxos, one turn of the loop: check_is_locked of a row
CheckIsLocked(c) ==
    /\ hpc[c] = "filter"
    /\ ri[c] <= Len(rows[c])
    /\ LET r == rows[c][ri[c]]
           locked == check_is_locked(r.id, RequestIdOf(c))
       IN filtered' = [filtered EXCEPT ![c] = IF locked THEN @ ELSE Append(@, r)]
    /\ ri' = [ri EXCEPT ![c] = @ + 1]
    /\ UNCHANGED <<apiStoreVars, request, hpc, shortcut, rows, collected_utxos, offset, locking,
                   li, resp, passed, allRtVars, cancelVars, statusVars, addressVars, collectorVars, runesVars, mempoolVars, pureVars>>

\* filter_used_btc_utxos: check_is_locked returns Err (no connection of the
\* pool, GET failed); the filter returns it and the handler answers
\* InternalError
CheckIsLockedErr(c) ==
    /\ hpc[c] = "filter"
    /\ ri[c] <= Len(rows[c])
    /\ cache_faults < MaxCacheFaults
    /\ cache_faults' = cache_faults + 1
    /\ resp' = [resp EXCEPT ![c] = ApiInternalError]
    /\ hpc' = [hpc EXCEPT ![c] = "done"]
    /\ UNCHANGED <<utxo_view, mempool, redis, unexpired, written, request, shortcut, rows, ri, filtered,
                   collected_utxos, offset, locking, li, passed, allRtVars, cancelVars, statusVars, addressVars, collectorVars,
                   runesVars, mempoolVars, pureVars>>

\* the filter is done: min_utxos_to_reach_target on what passed it, in the
\* shortcut or in the loop over the pages
CollectUtxos(c) ==
    /\ hpc[c] = "filter"
    /\ request[c].kind = "lock"
    /\ ri[c] > Len(rows[c])
    /\ LET cu == IF shortcut[c] THEN collected_utxos[c] ELSE collected_utxos[c] \o filtered[c]
           candidates == IF shortcut[c] THEN filtered[c] ELSE cu
           res == min_utxos_to_reach_target(candidates, request[c].amount)
       IN /\ collected_utxos' = [collected_utxos EXCEPT ![c] = cu]
          /\ IF res.ok
             THEN /\ locking' = [locking EXCEPT ![c] = res.utxos]
                  /\ li' = [li EXCEPT ![c] = 1]
                  /\ hpc' = [hpc EXCEPT ![c] = "lock"]
                  /\ UNCHANGED <<shortcut, offset>>
             ELSE /\ offset' = [offset EXCEPT ![c] = IF shortcut[c] THEN @ ELSE @ + PageLimit]
                  /\ shortcut' = [shortcut EXCEPT ![c] = FALSE]
                  /\ hpc' = [hpc EXCEPT ![c] = "page"]
                  /\ UNCHANGED <<locking, li>>
    /\ UNCHANGED <<apiStoreVars, request, rows, ri, filtered, resp, passed, allRtVars, cancelVars, statusVars, addressVars,
                   collectorVars, runesVars, mempoolVars, pureVars>>

\* list_utxos_with_lock, the head of the loop: the next page is selected
PageSelect(c) ==
    /\ hpc[c] = "page"
    /\ LET page == select_utxo_with_pagination(PageLimit, offset[c])
       IN IF page = <<>>
          THEN /\ resp' = [resp EXCEPT ![c] =
                              ApiNotEnoughBalance(request[c].amount, Sum(collected_utxos[c]))]
               /\ hpc' = [hpc EXCEPT ![c] = "done"]
               /\ UNCHANGED <<rows, ri, filtered, passed>>
          ELSE /\ rows' = [rows EXCEPT ![c] = filter_used_utxos(page)]
               /\ passed' = [passed EXCEPT ![c] = @ \cup NotConsumed(page)]
               /\ ri' = [ri EXCEPT ![c] = 1]
               /\ filtered' = [filtered EXCEPT ![c] = <<>>]
               /\ hpc' = [hpc EXCEPT ![c] = "filter"]
               /\ UNCHANGED resp
    /\ UNCHANGED <<apiStoreVars, request, shortcut, collected_utxos, offset, locking, li,
                   allRtVars, cancelVars, statusVars, addressVars, collectorVars, runesVars, mempoolVars, pureVars>>

\* lock_utxo, one turn of the loop: SETEX of the key of a UTXO
LockUtxo(c) ==
    /\ hpc[c] = "lock"
    /\ li[c] <= Len(locking[c])
    /\ request[c].can_lock_utxo
    /\ LET u == locking[c][li[c]]
           val == LockValue(request[c].request_id)
       IN /\ redis' = [redis EXCEPT ![u.id] = val]
          /\ unexpired' = unexpired \cup {<<u.id, val>>}
          /\ written' = written \cup {<<u.id, val>>}
    /\ li' = [li EXCEPT ![c] = @ + 1]
    /\ UNCHANGED <<utxo_view, mempool, cache_faults, request, hpc, shortcut, rows, ri, filtered,
                   collected_utxos, offset, locking, resp, passed, allRtVars, cancelVars, statusVars, addressVars, collectorVars,
                   runesVars, mempoolVars, pureVars>>

\* lock_utxo, one turn of the loop: Repo::lock_utxo returns Err; the error is
\* logged and the loop goes on with the next UTXO
LockUtxoErr(c) ==
    /\ hpc[c] = "lock"
    /\ li[c] <= Len(locking[c])
    /\ request[c].can_lock_utxo
    /\ cache_faults < MaxCacheFaults
    /\ cache_faults' = cache_faults + 1
    /\ li' = [li EXCEPT ![c] = @ + 1]
    /\ UNCHANGED <<utxo_view, mempool, redis, unexpired, written, request, hpc, shortcut, rows, ri,
                   filtered, collected_utxos, offset, locking, resp, passed, allRtVars, cancelVars, statusVars, addressVars,
                   collectorVars, runesVars, mempoolVars, pureVars>>

\* the handler answers with the UTXOs it collected
Respond(c) ==
    /\ hpc[c] = "lock"
    /\ li[c] > Len(locking[c]) \/ ~request[c].can_lock_utxo
    /\ resp' = [resp EXCEPT ![c] = Ok(locking[c])]
    /\ hpc' = [hpc EXCEPT ![c] = "done"]
    /\ UNCHANGED <<apiStoreVars, request, shortcut, rows, ri, filtered, collected_utxos, offset,
                   locking, li, passed, allRtVars, cancelVars, statusVars, addressVars, collectorVars, runesVars, mempoolVars, pureVars>>

\* list_utxos, the head of the 'collector loop: a page of db_limit rows from
\* db_offset is selected; db_limit is limit less the records collected
ListUtxos(c) ==
    /\ hpc[c] \in {"start", "list_page"}
    /\ request[c].kind = "list"
    /\ LET db_limit == request[c].limit - Len(collected_utxos[c])
           row == select_utxo_with_pagination(db_limit, offset[c])
       IN IF row = <<>>
          THEN /\ resp' = [resp EXCEPT ![c] = Ok(collected_utxos[c])]
               /\ hpc' = [hpc EXCEPT ![c] = "done"]
               /\ UNCHANGED <<rows, ri, filtered, passed>>
          ELSE /\ rows' = [rows EXCEPT ![c] = filter_used_utxos(row)]
               /\ passed' = [passed EXCEPT ![c] = @ \cup NotConsumed(row)]
               /\ ri' = [ri EXCEPT ![c] = 1]
               /\ filtered' = [filtered EXCEPT ![c] = <<>>]
               /\ hpc' = [hpc EXCEPT ![c] = "filter"]
               /\ UNCHANGED resp
    /\ UNCHANGED <<apiStoreVars, request, shortcut, collected_utxos, offset, locking, li,
                   allRtVars, cancelVars, statusVars, addressVars, collectorVars, runesVars, mempoolVars, pureVars>>

\* list_utxos, the end of a turn of the 'collector loop: the rows that passed
\* the filter are added to the records
ListCollect(c) ==
    /\ hpc[c] = "filter"
    /\ request[c].kind = "list"
    /\ ri[c] > Len(rows[c])
    /\ LET records == collected_utxos[c] \o filtered[c]
           db_limit == request[c].limit - Len(collected_utxos[c])
       IN /\ collected_utxos' = [collected_utxos EXCEPT ![c] = records]
          /\ IF Len(records) >= request[c].limit
             THEN /\ resp' = [resp EXCEPT ![c] = Ok(records)]
                  /\ hpc' = [hpc EXCEPT ![c] = "done"]
                  /\ UNCHANGED offset
             ELSE /\ offset' = [offset EXCEPT ![c] = @ + db_limit]
                  /\ hpc' = [hpc EXCEPT ![c] = "list_page"]
                  /\ UNCHANGED resp
    /\ UNCHANGED <<apiStoreVars, request, shortcut, rows, ri, filtered, locking, li, passed,
                   allRtVars, cancelVars, statusVars, addressVars, collectorVars, runesVars, mempoolVars, pureVars>>

\* the TTL of a lock runs out: the key goes, unless it was written again since
Expire ==
    /\ \E l \in unexpired :
          /\ unexpired' = unexpired \ {l}
          /\ redis' = [redis EXCEPT ![l[1]] = IF @ = l[2] THEN Nil ELSE @]
    /\ UNCHANGED <<utxo_view, mempool, written, cache_faults, handlerVars, allRtVars, cancelVars, statusVars, addressVars, collectorVars,
                   runesVars, mempoolVars, pureVars>>

\* the refresh task has rewritten the mempool index
MempoolUpdated ==
    /\ \E m \in MempoolViews : m # mempool /\ mempool' = m
    /\ UNCHANGED <<utxo_view, redis, unexpired, written, cache_faults, handlerVars, allRtVars, cancelVars, statusVars, addressVars,
                   collectorVars, runesVars, mempoolVars, pureVars>>

\* POST .../utxos/lock of caller 1 and a second call: a lock call with the
\* same request id, another one or none, or GET .../utxos
Requests ==
    {[kind |-> "lock", request_id |-> r, amount |-> a, limit |-> 0, can_lock_utxo |-> TRUE] :
        r \in RequestIds, a \in 1..MaxAmount}
    \cup
    {[kind |-> "list", request_id |-> "", amount |-> 0, limit |-> l, can_lock_utxo |-> TRUE] :
        l \in 1..MaxUtxos}

ReserveInit ==
    /\ RtIdle
    /\ StatusIdle
    /\ AddressIdle
    /\ CollectorIdle
    /\ RunesIdle
    /\ MempoolIdle
    /\ PureIdle
    /\ utxo_view \in UtxoViews
    /\ mempool \in MempoolViews
    /\ redis = [id \in UtxoIds |-> Nil]
    /\ unexpired = {}
    /\ written = {}
    /\ cache_faults = 0
    /\ request \in [Callers -> Requests]
    /\ request[1].kind = "lock"
    /\ request[1].request_id \in {"req-1", NO_ID}
    /\ request[2].request_id # NO_ID
    /\ hpc = [c \in Callers |-> "start"]
    /\ shortcut = [c \in Callers |-> FALSE]
    /\ rows = [c \in Callers |-> <<>>]
    /\ ri = [c \in Callers |-> 0]
    /\ filtered = [c \in Callers |-> <<>>]
    /\ collected_utxos = [c \in Callers |-> <<>>]
    /\ offset = [c \in Callers |-> 0]
    /\ locking = [c \in Callers |-> <<>>]
    /\ li = [c \in Callers |-> 0]
    /\ resp = [c \in Callers |-> None]
    /\ passed = [c \in Callers |-> {}]

ReserveNext ==
    \/ \E c \in Callers : ListUtxosWithLock(c)
    \/ \E c \in Callers : ShortcutSelect(c)
    \/ \E c \in Callers : CheckIsLocked(c)
    \/ \E c \in Callers : CheckIsLockedErr(c)
    \/ \E c \in Callers : CollectUtxos(c)
    \/ \E c \in Callers : PageSelect(c)
    \/ \E c \in Callers : LockUtxo(c)
    \/ \E c \in Callers : LockUtxoErr(c)
    \/ \E c \in Callers : Respond(c)
    \/ \E c \in Callers : ListUtxos(c)
    \/ \E c \in Callers : ListCollect(c)
    \/ Expire
    \/ MempoolUpdated

SpecReserve == ReserveInit /\ [][ReserveNext]_vars

ReserveTypeOK ==
    /\ \A c \in Callers :
          hpc[c] \in {"start", "shortcut", "filter", "page", "list_page", "lock", "done"}
    /\ \A c \in Callers : hpc[c] = "done" <=> resp[c] # None
    /\ cache_faults \in 0..MaxCacheFaults

(***************************************************************************)
(* Part III, the claims                                                    *)
(***************************************************************************)
\* the UTXOs the handler returned to caller c
Records(c) == IF hpc[c] = "done" /\ resp[c].ok THEN {resp[c].utxos[i].id : i \in DOMAIN resp[c].utxos}
              ELSE {}

\* C2 (as stated): with the reservation cache on and keys that may lock, for
\* every interleaving of two calls for one address with different request ids,
\* no UTXO is returned to both callers while the lock written for the first of
\* them has not expired.
C2_NoDoubleHandout ==
    \A a, b \in Callers : \A id \in UtxoIds :
        (/\ a # b
         /\ request[a].kind = "lock" /\ request[b].kind = "lock"
         /\ request[a].request_id # request[b].request_id
         /\ id \in Records(a) /\ id \in Records(b))
            => ~(/\ <<id, LockValue(request[a].request_id)>> \in unexpired
                 /\ <<id, LockValue(request[b].request_id)>> \in unexpired)

\* check_is_locked returns true exactly when the key exists and holds the
\* sentinel or an id other than the caller's
LockedIffForeign(id, r) ==
    check_is_locked(id, Some(r)) <=> (redis[id] # Nil /\ (redis[id] = NO_ID \/ redis[id] # r))

\* C13 (as stated): check_is_locked of an outpoint and a request id is true
\* iff a key exists for the outpoint and holds the sentinel or an id other
\* than the caller's; it is false when no key exists and when the stored id
\* equals the caller's id.
C13_CheckIsLocked ==
    \A id \in UtxoIds : \A r \in RequestIds :
        /\ LockedIffForeign(id, r)
        /\ redis[id] = Nil => ~check_is_locked(id, Some(r))
        /\ redis[id] = r => ~check_is_locked(id, Some(r))

\* C13 (amended): check_is_locked is true iff a key exists and holds the
\* sentinel or an id other than the caller's (for a call without a request id:
\* iff a key exists); it is false when no key exists and when the stored id
\* equals the caller's id and is not the sentinel, so that a caller repeating
\* a request with an id other than the sentinel sees its own locks as not
\* locked.
C13_CheckIsLockedBarSentinel ==
    \A id \in UtxoIds :
        /\ check_is_locked(id, None) <=> redis[id] # Nil
        /\ \A r \in RequestIds :
              /\ LockedIffForeign(id, r)
              /\ redis[id] = Nil => ~check_is_locked(id, Some(r))
              /\ (redis[id] = r /\ r # NO_ID) => ~check_is_locked(id, Some(r))

\* the request ids a caller can send: any string, the value lock_utxo wrote
\* for an empty id among them
AnyRequestId == RequestIds \cup {LockValue("")}

\* C34: a key written for an empty request_id holds a synthetic
\* p.j.fry-<random> value that no caller's request_id equals: every lock check
\* of the outpoint, by a caller with an empty id, without an id or with any
\* non-empty id, reports it locked while the key exists.
C34_EmptyIdLocked ==
    \A id \in UtxoIds :
        redis[id] = LockValue("") =>
            /\ redis[id] \notin {"", NO_ID}
            /\ check_is_locked(id, None)
            /\ \A r \in AnyRequestId : check_is_locked(id, Some(r))

\* two calls with the request id "req-1" were both given a UTXO whose key
\* holds "req-1"; for "req-2" it is locked
C13_Witness ==
    \E id \in UtxoIds :
        /\ \A c \in Callers : request[c].request_id = "req-1" /\ id \in Records(c)
        /\ redis[id] = "req-1"
        /\ ~check_is_locked(id, Some("req-1"))
        /\ check_is_locked(id, Some("req-2"))
        /\ check_is_locked(id, None)

\* the handler of caller c answers in this step
Answers(c) == hpc[c] # "done" /\ hpc'[c] = "done"

\* caller b carries another request id than caller a, or none
Foreign(a, b) ==
    \/ request[b].kind = "list"
    \/ request[b].request_id = ""
    \/ request[b].request_id # request[a].request_id

\* C14 (as stated): when a lock call of caller a (can_lock_utxo, cache on)
\* answers with a UTXO u, a key for u has been written with a's id and, while
\* its TTL has not run out, the key of u holds a's id; and while the TTL of
\* the key written for a has not run out, no call with another request id or
\* none answers with u.
C14_ReservedUntilExpiry ==
    [][\A a \in Callers : request[a].kind = "lock" /\ request[a].can_lock_utxo =>
          LET val == LockValue(request[a].request_id)
          IN /\ (Answers(a) /\ resp'[a].ok) =>
                    \A i \in DOMAIN resp'[a].utxos :
                        LET u == resp'[a].utxos[i].id
                        IN /\ <<u, val>> \in written'
                           /\ <<u, val>> \in unexpired' => redis'[u] = val
             /\ \A b \in Callers \ {a} : \A u \in Records(a) :
                    (Foreign(a, b) /\ <<u, val>> \in unexpired /\ Answers(b))
                        => u \notin Records(b)']_vars

\* C15 (as stated): when a call of the reservation cache fails in a lock
\* call, be it the lock check of a candidate or the write of the key of a
\* selected UTXO, the handler answers InternalError (500); and a lock call
\* never answers Ok with a UTXO whose key it has not written.
C15_CacheFailureFails ==
    [][\A c \in Callers : request[c].kind = "lock" /\ request[c].can_lock_utxo =>
          /\ (CheckIsLockedErr(c) \/ LockUtxoErr(c)) => resp'[c] = ApiInternalError
          /\ (Answers(c) /\ resp'[c].ok) =>
                \A i \in DOMAIN resp'[c].utxos :
                    <<resp'[c].utxos[i].id, LockValue(request[c].request_id)>> \in written']_vars

\* C16: every UTXO a list call or a lock call answers with was not in the
\* consumed set of the mempool index at a read of the index by the filter of
\* that call (the index may be rewritten between the reads and after them).
C16_MempoolFilterSound ==
    \A c \in Callers : Records(c) \subseteq passed[c]

\* a list call that selected both UTXOs of the address has answered with the
\* first one only: the second was consumed when the filter read the index,
\* and is no longer
C16_Witness ==
    \E c \in Callers :
        /\ request[c].kind = "list"
        /\ request[c].limit = 2
        /\ Len(utxo_view) = 2
        /\ Records(c) = {1}
        /\ passed[c] = {1}
        /\ redis[2] = Nil
        /\ mempool = {}

(***************************************************************************)
(* Part IV: the runes indexer processing the transactions of a block       *)
(*                                                                         *)
(* A Rune row is [block, tx_id, name, mints, minted, premine, burned,      *)
(* in_circulation, cenotaph, terms]; terms stands for the Terms kept in    *)
(* raw_data, [some, amount, cap] (etchings carry no height or offset       *)
(* terms). A RuneUtxo row is [block, tx_id, tx_hash, vout, rune, rune_id,  *)
(* amount]. A RuneId is <<block, tx>>, a txid <<block, tx_n, generation>>, *)
(* an outpoint <<txid, vout>>.                                             *)
(*                                                                         *)
(* The store reads that fail are select_runes_outputs and the              *)
(* get_rune_by_id of mint; a failed get_rune in unallocated makes          *)
(* index_transaction return Err, which is IndexTransactionErr of Part I.   *)
(***************************************************************************)
\* Option::None of a RuneId, of a Rune name, of a minted amount, of a pointer
NoId == <<>>
NoName == <<>>
NoAmount == -1
NoPointer == -1
\* RuneId::default(), the id an edict uses for the rune etched by its transaction
DefaultId == <<0, 0>>
NoTerms == [some |-> FALSE, amount |-> 0, cap |-> 0]

\* HashMap::insert
Put(map, k, v) == [x \in (DOMAIN map) \cup {k} |-> IF x = k THEN v ELSE map[x]]
\* the value of entry(k).or_default()
Get(map, k) == IF k \in DOMAIN map THEN map[k] ELSE 0
Values(map) == {map[k] : k \in DOMAIN map}
Min(a, b) == IF a <= b THEN a ELSE b

RECURSIVE SetToSeq(_)
SetToSeq(S) == IF S = {} THEN <<>>
               ELSE LET x == CHOOSE y \in S : TRUE IN <<x>> \o SetToSeq(S \ {x})

\* Rune::rune_id
rune_id(rune) == <<rune.block, rune.tx_id>>

\* (mutation of add_mint: minted is left as it is)
add_mint_uncounted(rune, amount) ==
    [rune EXCEPT !.mints = @ + 1, !.in_circulation = @ + amount]

\* Rune::add_mint
add_mint(rune, amount) ==
    [rune EXCEPT !.mints = @ + 1, !.in_circulation = @ + amount, !.minted = @ + amount]

\* (mutation of burn: in_circulation is left as it is)
burn_uncounted(rune, amount) ==
    IF amount > rune.in_circulation THEN rune ELSE [rune EXCEPT !.burned = @ + amount]

\* Rune::burn
burn(rune, amount) ==
    IF amount > rune.in_circulation THEN rune
    ELSE [rune EXCEPT !.burned = @ + amount, !.in_circulation = @ - amount]

\* DB::get_rune and DB::get_rune_by_id: the rows the query finds
get_rune(rune_name) == {r \in rune_table : r.name = rune_name}
db_get_rune_by_id(id) == {r \in rune_table : rune_id(r) = id}

\* DB::select_runes_outputs
select_runes_outputs(tx_hash, vout) ==
    {u \in rune_utxos : u.tx_hash = tx_hash /\ u.vout = vout}

\* State::get_rune_by_name on the BlockData d: the staged rune, else the
\* staged update, else the row of the store, which is then cached; db_ok is
\* FALSE when the read of the store fails
get_rune_by_name(d, rune, db_ok) ==
    IF rune \in DOMAIN d.new_runes
    THEN [ok |-> TRUE, rune |-> d.new_runes[rune], d |-> d]
    ELSE IF rune \in DOMAIN d.rune_updates
    THEN [ok |-> TRUE, rune |-> d.rune_updates[rune], d |-> d]
    ELSE IF ~db_ok \/ get_rune(rune) = {}
    THEN [ok |-> FALSE, rune |-> NoName, d |-> d]
    ELSE LET rune_row == CHOOSE r \in get_rune(rune) : TRUE IN
         [ok |-> TRUE, rune |-> rune_row,
          d |-> [d EXCEPT !.runes_index = Put(@, rune_id(rune_row), rune),
                          !.rune_updates = Put(@, rune, rune_row)]]

\* State::get_rune_by_id; db_ok is FALSE when the read of the store fails
get_rune_by_id(d, id, db_ok) ==
    LET rune_name == IF id \in DOMAIN d.runes_index THEN d.runes_index[id] ELSE NoName IN
    IF rune_name \in DOMAIN d.new_runes
    THEN [ok |-> TRUE, rune |-> d.new_runes[rune_name], d |-> d]
    ELSE IF rune_name \in DOMAIN d.rune_updates
    THEN [ok |-> TRUE, rune |-> d.rune_updates[rune_name], d |-> d]
    ELSE IF ~db_ok \/ db_get_rune_by_id(id) = {}
    THEN [ok |-> FALSE, rune |-> NoName, d |-> d]
    ELSE LET rune_row == CHOOSE r \in db_get_rune_by_id(id) : TRUE IN
         [ok |-> TRUE, rune |-> rune_row,
          d |-> [d EXCEPT !.runes_index = Put(@, rune_id(rune_row), rune_row.name),
                          !.rune_updates = Put(@, rune_row.name, rune_row)]]

\* State::store_new_rune
store_new_rune(d, rune_row) ==
    [d EXCEPT !.new_runes = Put(@, rune_row.name, rune_row),
              !.runes_index = Put(@, rune_id(rune_row), rune_row.name)]

\* State::update_rune
update_rune(d, rune) ==
    IF rune.name \in DOMAIN d.new_runes
    THEN [d EXCEPT !.new_runes = Put(@, rune.name, rune)]
    ELSE [d EXCEPT !.rune_updates = Put(@, rune.name, rune)]

\* State::burn_rune_by_id; the rune was loaded by this transaction, so the
\* lookup is answered from the BlockData
burn_rune_by_id(d, id, amount) ==
    LET r == get_rune_by_id(d, id, TRUE) IN update_rune(r.d, burn(r.rune, amount))

\* State::get_parent_utxos; {} stands for None
get_parent_utxos(d, input, db_ok) ==
    LET utxos_found == select_runes_outputs(input[1], input[2]) IN
    IF ~db_ok THEN {}
    ELSE IF utxos_found = {}
    THEN {d.new_utxos[i] : i \in {j \in DOMAIN d.new_utxos :
                                     /\ d.new_utxos[j].tx_hash = input[1]
                                     /\ d.new_utxos[j].vout = input[2]}}
    ELSE utxos_found

\* RunesIndexer::unallocated, the loop over the RuneUtxos of the inputs
RECURSIVE unallocated_loop(_, _, _, _)
unallocated_loop(d, utxo_list, i, acc) ==
    IF i > Len(utxo_list) THEN [ok |-> TRUE, d |-> d, unallocated |-> acc]
    ELSE LET r == get_rune_by_name(d, utxo_list[i].rune, TRUE) IN
         IF ~r.ok THEN [ok |-> FALSE, d |-> r.d, unallocated |-> acc]
         ELSE unallocated_loop(r.d, utxo_list, i + 1,
                               Put(acc, rune_id(r.rune),
                                   Get(acc, rune_id(r.rune)) + utxo_list[i].amount))

\* the RuneUtxos of the inputs from position i on; failed are the positions
\* of the inputs whose select_runes_outputs fails
RECURSIVE parent_utxos(_, _, _, _)
parent_utxos(d, input, i, failed) ==
    IF i > Len(input) THEN <<>>
    ELSE SetToSeq(get_parent_utxos(d, input[i], i \notin failed))
            \o parent_utxos(d, input, i + 1, failed)

\* RunesIndexer::unallocated
unallocated(d, tx, failed) ==
    unallocated_loop(d, parent_utxos(d, tx.input, 1, failed), 1, EmptyMap)

\* (mutation of mintable: the cap is not looked at)
mintable_uncapped(rune) == rune.terms.some

\* Option::None of a height or an offset
NoHeight == -1

\* u64::MAX, scaled down
U64Max == 7

\* u64::saturating_add
saturating_add(a, b) == Min(a + b, U64Max)

\* Option<u128>::unwrap_or_default
unwrap_or_default(x) == IF x = NoAmount THEN 0 ELSE x

\* Rune::terms() of a rune row without terms
NoFullTerms == [some |-> FALSE, amount |-> NoAmount, cap |-> NoAmount,
                height |-> <<NoHeight, NoHeight>>, offset |-> <<NoHeight, NoHeight>>]

\* MintChecker::new; the terms of the rows of Part IV have no height and no
\* offset
MintChecker_new(rune) ==
    [block |-> rune.block, mints |-> rune.mints,
     terms |-> [some |-> rune.terms.some, amount |-> rune.terms.amount,
                cap |-> rune.terms.cap,
                height |-> <<NoHeight, NoHeight>>, offset |-> <<NoHeight, NoHeight>>]]

\* MintChecker::start
start(c) ==
    IF ~c.terms.some THEN NoHeight
    ELSE LET relative == IF c.terms.offset[1] = NoHeight THEN NoHeight
                         ELSE saturating_add(c.block, c.terms.offset[1])
             absolute == c.terms.height[1]
         IN  IF relative # NoHeight /\ absolute # NoHeight THEN Max(relative, absolute)
             ELSE IF relative # NoHeight THEN relative
             ELSE absolute

\* MintChecker::end
end(c) ==
    IF ~c.terms.some THEN NoHeight
    ELSE LET relative == IF c.terms.offset[2] = NoHeight THEN NoHeight
                         ELSE saturating_add(c.block, c.terms.offset[2])
             absolute == c.terms.height[2]
         IN  IF relative # NoHeight /\ absolute # NoHeight THEN Min(relative, absolute)
             ELSE IF relative # NoHeight THEN relative
             ELSE absolute

\* Result<u128, MintError>
MintOk(amount) == [ok |-> TRUE, amount |-> amount, err |-> "", at |-> NoHeight]
MintErr(err, at) == [ok |-> FALSE, amount |-> NoAmount, err |-> err, at |-> at]

\* (mutation of MintChecker_mintable: the end of the window is not looked at)
MintChecker_mintable_open_end(c, height) ==
    IF ~c.terms.some THEN MintErr("Unmintable", NoHeight)
    ELSE IF start(c) # NoHeight /\ height < start(c) THEN MintErr("Start", start(c))
    ELSE IF c.mints >= unwrap_or_default(c.terms.cap)
        THEN MintErr("Cap", unwrap_or_default(c.terms.cap))
    ELSE MintOk(unwrap_or_default(c.terms.amount))

\* MintChecker::mintable
MintChecker_mintable(c, height) ==
    IF ~c.terms.some THEN MintErr("Unmintable", NoHeight)
    ELSE IF start(c) # NoHeight /\ height < start(c) THEN MintErr("Start", start(c))
    ELSE IF end(c) # NoHeight /\ height >= end(c) THEN MintErr("End", end(c))
    ELSE IF c.mints >= unwrap_or_default(c.terms.cap)
        THEN MintErr("Cap", unwrap_or_default(c.terms.cap))
    ELSE MintOk(unwrap_or_default(c.terms.amount))

\* MintChecker::new(&rune_info).mintable(height) of RunesIndexer::mint succeeds;
\* the height plays no part for terms without height and offset
mintable(rune) == MintChecker_mintable(MintChecker_new(rune), rune.block).ok

\* RunesIndexer::mint
mint(d, id, db_ok) ==
    LET r == get_rune_by_id(d, id, db_ok) IN
    IF ~r.ok THEN [d |-> r.d, amount |-> NoAmount]
    ELSE IF ~mintable(r.rune) THEN [d |-> r.d, amount |-> NoAmount]
    ELSE [d |-> update_rune(r.d, add_mint(r.rune, r.rune.terms.amount)),
          amount |-> r.rune.terms.amount]

\* ordinals::Rune::reserved(block, tx)
reserved(block, tx) == <<"reserved", block, tx>>

\* RunesIndexer::etched: the Rune row of a valid etching is staged
etched(d, tx_info, artifact, db_ok) ==
    LET etching == artifact.etching
        named == etching.rune # NoName
        exists == get_rune_by_name(d, etching.rune, db_ok)
        rune == IF named THEN etching.rune ELSE reserved(tx_info.block, tx_info.tx_n)
        rune_row ==
            IF artifact.kind = "Cenotaph"
            THEN [block |-> tx_info.block, tx_id |-> tx_info.tx_n, name |-> rune, mints |-> 0,
                  minted |-> 0, premine |-> 0, burned |-> 0, in_circulation |-> 0,
                  cenotaph |-> TRUE, terms |-> NoTerms]
            ELSE [block |-> tx_info.block, tx_id |-> tx_info.tx_n, name |-> rune, mints |-> 0,
                  minted |-> etching.premine, premine |-> etching.premine, burned |-> 0,
                  in_circulation |-> etching.premine, cenotaph |-> FALSE,
                  terms |-> etching.terms]
    IN  IF ~etching.some THEN [d |-> d, id |-> NoId]
        ELSE IF named /\ exists.ok THEN [d |-> exists.d, id |-> NoId]
        ELSE IF named /\ ~etching.commitment THEN [d |-> d, id |-> NoId]
        ELSE [d |-> store_new_rune(d, rune_row), id |-> <<tx_info.block, tx_info.tx_n>>]

\* the closure allocate of _index_transaction; output counts from 1
allocate(st, id, amount, output) ==
    IF amount > 0
    THEN [unallocated |-> Put(st.unallocated, id, st.unallocated[id] - amount),
          allocated |-> [st.allocated EXCEPT ![output] = Put(@, id, Get(@, id) + amount)]]
    ELSE st

\* the positions of the non-OP_RETURN outputs
RECURSIVE destinations_from(_, _)
destinations_from(output, i) ==
    IF i > Len(output) THEN <<>>
    ELSE (IF output[i] THEN <<>> ELSE <<i>>) \o destinations_from(output, i + 1)

destinations(tx) == destinations_from(tx.output, 1)

\* (mutation of divide: the remainder is handed to no output)
RECURSIVE divide_even(_, _, _, _, _, _)
divide_even(st, id, dests, i, amount, remainder) ==
    IF i > Len(dests) THEN st
    ELSE divide_even(allocate(st, id, amount, dests[i]), id, dests, i + 1, amount, remainder)

\* an edict of amount 0 to all outputs: the balance is divided
RECURSIVE divide(_, _, _, _, _, _)
divide(st, id, dests, i, amount, remainder) ==
    IF i > Len(dests) THEN st
    ELSE divide(allocate(st, id, IF i - 1 < remainder THEN amount + 1 ELSE amount, dests[i]),
                id, dests, i + 1, amount, remainder)

\* an edict of a non-zero amount to all outputs
RECURSIVE distribute(_, _, _, _, _)
distribute(st, id, dests, i, amount) ==
    IF i > Len(dests) THEN st
    ELSE distribute(allocate(st, id, Min(amount, st.unallocated[id]), dests[i]),
                    id, dests, i + 1, amount)

\* one turn of the loop over runestone.edicts
apply_edict(st, tx, edict, etched_id) ==
    LET id == IF edict.id = DefaultId THEN etched_id ELSE edict.id
        balance == st.unallocated[id]
        dests == destinations(tx)
    IN  IF id = NoId \/ id \notin DOMAIN st.unallocated THEN st
        ELSE IF edict.output = Len(tx.output)
        THEN IF dests = <<>> THEN st
             ELSE IF edict.amount = 0
             THEN divide(st, id, dests, 1, balance \div Len(dests), balance % Len(dests))
             ELSE distribute(st, id, dests, 1, edict.amount)
        ELSE allocate(st, id, IF edict.amount = 0 THEN balance ELSE Min(edict.amount, balance),
                      edict.output + 1)

RECURSIVE apply_edicts(_, _, _, _, _)
apply_edicts(st, tx, edicts, i, etched_id) ==
    IF i > Len(edicts) THEN st
    ELSE apply_edicts(apply_edict(st, tx, edicts[i], etched_id), tx, edicts, i + 1, etched_id)

\* the balances of a map that are not 0
Positive(map) == [k \in {x \in DOMAIN map : map[x] > 0} |-> map[k]]
\* *entry(id).or_default() += balance for every entry of more
AddAll(map, more) == [k \in (DOMAIN map) \cup (DOMAIN more) |-> Get(map, k) + Get(more, k)]

\* (mutation of default_output: the pointer is not looked at)
default_output_first(tx) ==
    IF destinations(tx) = <<>> THEN 0 ELSE Head(destinations(tx))

\* the output the unallocated runes go to: the pointer, else the first
\* non-OP_RETURN output, else none (0)
default_output(tx) ==
    IF tx.artifact.kind = "Runestone" /\ tx.artifact.pointer # NoPointer
    THEN tx.artifact.pointer + 1
    ELSE IF destinations(tx) = <<>> THEN 0 ELSE Head(destinations(tx))

\* RuneIds in ascending order (balances.sort())
RECURSIVE sorted_ids(_)
sorted_ids(S) ==
    IF S = {} THEN <<>>
    ELSE LET least == CHOOSE x \in S : \A y \in S :
                          x[1] < y[1] \/ (x[1] = y[1] /\ x[2] <= y[2])
         IN <<least>> \o sorted_ids(S \ {least})

\* the RuneUtxo rows of the outputs from vout on (vout counts from 1)
RECURSIVE rune_utxos_from(_, _, _, _, _)
rune_utxos_from(d, tx_info, tx, allocated, vout) ==
    IF vout > Len(allocated) THEN <<>>
    ELSE LET ids == sorted_ids(DOMAIN allocated[vout])
             row(i) == [block |-> tx_info.block, tx_id |-> tx_info.tx_n,
                        tx_hash |-> tx_info.txid, vout |-> vout - 1,
                        rune |-> get_rune_by_id(d, ids[i], TRUE).rune.name,
                        rune_id |-> ids[i], amount |-> allocated[vout][ids[i]]]
         IN (IF tx.output[vout] THEN <<>> ELSE [i \in 1..Len(ids) |-> row(i)])
               \o rune_utxos_from(d, tx_info, tx, allocated, vout + 1)

\* the balances allocated to OP_RETURN outputs from vout on
RECURSIVE op_return_balances(_, _, _)
op_return_balances(tx, allocated, vout) ==
    IF vout > Len(allocated) THEN EmptyMap
    ELSE AddAll(IF tx.output[vout] THEN allocated[vout] ELSE EmptyMap,
                op_return_balances(tx, allocated, vout + 1))

\* the loop over burned
RECURSIVE burn_all(_, _, _)
burn_all(d, burned, ids) ==
    IF ids = <<>> THEN d
    ELSE burn_all(burn_rune_by_id(d, Head(ids), burned[Head(ids)]), burned, Tail(ids))

\* _index_transaction, the end: the rows of the outputs are staged and the
\* burned amounts are applied to the runes
update_balances(d, tx_info, tx, allocated, left) ==
    burn_all([d EXCEPT !.new_utxos = @ \o rune_utxos_from(d, tx_info, tx, allocated, 1)],
             AddAll(left, op_return_balances(tx, allocated, 1)),
             SetToSeq((DOMAIN left) \cup DOMAIN op_return_balances(tx, allocated, 1)))

\* _index_transaction after the edicts: a cenotaph burns what is
\* unallocated; otherwise it goes to the default output, and is burned when
\* there is none
assign_unallocated(d, tx_info, tx, st) ==
    IF tx.artifact.kind = "Cenotaph"
    THEN update_balances(d, tx_info, tx, st.allocated, st.unallocated)
    ELSE IF default_output(tx) # 0
    THEN update_balances(d, tx_info, tx,
                         [st.allocated EXCEPT ![default_output(tx)] =
                             AddAll(@, Positive(st.unallocated))],
                         EmptyMap)
    ELSE update_balances(d, tx_info, tx, st.allocated, Positive(st.unallocated))

\* _index_transaction after etched: the premine of the etched rune is
\* unallocated, then the edicts of a runestone allocate
allocate_edicts(e, tx_info, tx, balances) ==
    IF tx.artifact.kind = "Runestone"
    THEN assign_unallocated(e.d, tx_info, tx,
            apply_edicts([unallocated |->
                             IF e.id # NoId
                             THEN Put(balances, e.id,
                                      Get(balances, e.id) + tx.artifact.etching.premine)
                             ELSE balances,
                          allocated |-> [vout \in 1..Len(tx.output) |-> EmptyMap]],
                         tx, tx.artifact.edicts, 1, e.id))
    ELSE assign_unallocated(e.d, tx_info, tx,
            [unallocated |-> balances,
             allocated |-> [vout \in 1..Len(tx.output) |-> EmptyMap]])

\* _index_transaction after mint: the minted amount is unallocated, then
\* the etching is looked at
etch(m, tx_info, tx, balances, failing) ==
    allocate_edicts(IF tx.artifact.kind # "None"
                    THEN etched(m.d, tx_info, tx.artifact, ~failing.get_rune)
                    ELSE [d |-> m.d, id |-> NoId],
                    tx_info, tx,
                    IF m.amount # NoAmount
                    THEN Put(balances, tx.artifact.mint,
                             Get(balances, tx.artifact.mint) + m.amount)
                    ELSE balances)

\* _index_transaction after unallocated: the mint of the artifact
mint_artifact(u, tx_info, tx, failing) ==
    IF ~u.ok THEN [ok |-> FALSE, d |-> u.d]
    ELSE [ok |-> TRUE,
          d |-> etch(IF tx.artifact.kind # "None" /\ tx.artifact.mint # NoId
                     THEN mint(u.d, tx.artifact.mint, ~failing.get_rune_by_id)
                     ELSE [d |-> u.d, amount |-> NoAmount],
                     tx_info, tx, u.unallocated, failing)]

\* RunesIndexer::_index_transaction of the transaction tx at tx_info on the
\* BlockData d; failing names the store reads that fail
index_transaction(d, tx_info, tx, failing) ==
    mint_artifact(unallocated(d, tx, failing.select_runes_outputs), tx_info, tx, failing)

(***************************************************************************)
(* Part IV: the transactions of the chain                                  *)
(***************************************************************************)
Names == { <<"A">> }
MintTerms == [some |-> TRUE, amount |-> 1, cap |-> 1]
NoEtching == [some |-> FALSE, rune |-> NoName, premine |-> 0, terms |-> NoTerms,
              commitment |-> FALSE]
\* the etchings of a Runestone: none, a named rune with terms (with and
\* without a valid commitment), a rune without a name
Etchings ==
    {NoEtching}
      \cup [some : {TRUE}, rune : Names, premine : {MaxPremine}, terms : {MintTerms},
            commitment : BOOLEAN]
      \cup [some : {TRUE}, rune : {NoName}, premine : {MaxPremine}, terms : {NoTerms},
            commitment : {TRUE}]
\* the etchings of a Cenotaph name the rune
CenotaphEtchings ==
    {NoEtching}
      \cup [some : {TRUE}, rune : Names, premine : {0}, terms : {NoTerms}, commitment : {TRUE}]

\* the is_op_return flags of the outputs of a transaction
OutputSet == { <<FALSE>>, <<TRUE>>, <<FALSE, FALSE>>, <<FALSE, TRUE>> }

\* the ids of the runes of the store and of the block being processed
KnownIds == {rune_id(r) : r \in rune_table \cup Values(block_data.new_runes)}

NoArtifact == [kind |-> "None", etching |-> NoEtching, mint |-> NoId, edicts |-> <<>>,
               pointer |-> NoPointer]
\* what Runestone::decipher returns for a transaction of n outputs: an edict
\* names an output or all of them (n), a pointer names an output
Artifacts(n) ==
    {NoArtifact}
      \cup [kind : {"Runestone"}, etching : Etchings, mint : {NoId} \cup KnownIds,
            edicts : {<<>>} \cup { <<ed>> : ed \in [id : {DefaultId} \cup KnownIds,
                                                   amount : 0..MaxEdict,
                                                   output : {0, n}] },
            pointer : {NoPointer, n - 1}]
      \cup [kind : {"Cenotaph"}, etching : CenotaphEtchings, mint : {NoId} \cup KnownIds,
            edicts : {<<>>}, pointer : {NoPointer}]

\* the outpoints that carry runes and are unspent on the best chain
Unspent ==
    {<<u.tx_hash, u.vout>> : u \in rune_utxos \cup Values(block_data.new_utxos)}
        \ {s[1] : s \in spent}

\* the non-coinbase transactions the next block may hold at this position;
\* inputs that carry no runes are left out
Transactions ==
    UNION {{[input |-> SetToSeq(ins), output |-> outs, artifact |-> a] :
               ins \in {S \in SUBSET Unspent : Cardinality(S) <= MaxInputs},
               a \in Artifacts(Len(outs))} : outs \in OutputSet}

NoFailure == [select_runes_outputs |-> {}, get_rune_by_id |-> FALSE, get_rune |-> FALSE]
\* the store reads that fail while tx is processed: none or, while the
\* fault budget lasts, one
Failures(tx) ==
    {NoFailure}
      \cup (IF rune_faults < MaxRuneFaults
            THEN {[NoFailure EXCEPT !.select_runes_outputs = {i}] : i \in 1..Len(tx.input)}
                   \cup (IF tx.artifact.mint # NoId
                         THEN {[NoFailure EXCEPT !.get_rune_by_id = TRUE]} ELSE {})
                   \cup (IF tx.artifact.etching.rune # NoName
                         THEN {[NoFailure EXCEPT !.get_rune = TRUE]} ELSE {})
            ELSE {})

(***************************************************************************)
(* Part IV: the steps                                                      *)
(***************************************************************************)
\* RunesIndexer::index_transaction of the transaction tx, with the store
\* reads of failing failing
IndexTransactionOf(tx, failing) ==
    /\ LET tx_info == [block |-> tx_block, tx_n |-> tx_n,
                       txid |-> <<tx_block, tx_n, generation>>]
           res == index_transaction(block_data, tx_info, tx, failing)
       IN  /\ res.ok
           /\ block_data' = res.d
           /\ spent' = spent \cup {<<tx.input[i], tx_block>> : i \in 1..Len(tx.input)}
           /\ rune_faults' = rune_faults + (IF failing = NoFailure THEN 0 ELSE 1)
    /\ tx_n' = tx_n + 1
    /\ txs' = txs + 1
    /\ UNCHANGED <<rune_table, rune_utxos, tx_block, generation>>
    /\ UNCHANGED <<allRtVars, cancelVars, statusVars, addressVars, collectorVars, reserveVars, mempoolVars>>

\* Rt::index_block hands the next transaction of the block to
\* RunesIndexer::index_transaction
IndexRuneTransaction ==
    /\ txs < MaxTxs
    /\ tx_block <= MaxRuneHeight
    /\ \E tx \in Transactions : \E failing \in Failures(tx) : IndexTransactionOf(tx, failing)
    /\ UNCHANGED pureVars

\* the same step, with the kind of the artifact of the transaction and the
\* name its etching gives kept in fn_call
IndexRuneTransactionCall ==
    /\ txs < MaxTxs
    /\ tx_block <= MaxRuneHeight
    /\ \E tx \in Transactions : \E failing \in Failures(tx) :
          /\ IndexTransactionOf(tx, failing)
          /\ fn_call' = [kind |-> tx.artifact.kind, rune |-> tx.artifact.etching.rune]
    /\ UNCHANGED fn_ret

\* DB::update_rune for every staged update
updated(table, rune_updates) ==
    {IF r.name \in DOMAIN rune_updates
     THEN [r EXCEPT !.mints = rune_updates[r.name].mints,
                    !.minted = rune_updates[r.name].minted,
                    !.burned = rune_updates[r.name].burned,
                    !.in_circulation = rune_updates[r.name].in_circulation]
     ELSE r : r \in table}

\* the rows commit_state inserts: the first staged row of every
\* (tx_hash, vout, rune)
unique_rows(new_utxos) ==
    {new_utxos[i] : i \in {j \in DOMAIN new_utxos :
        \A k \in 1..(j - 1) :
            <<new_utxos[k].tx_hash, new_utxos[k].vout, new_utxos[k].rune>>
                # <<new_utxos[j].tx_hash, new_utxos[j].vout, new_utxos[j].rune>>}}

\* State::reset_state: runes_index is kept
reset_block_data(d) == [EmptyBlockData EXCEPT !.runes_index = d.runes_index]

\* the block is complete: State::commit_state, then the next block
CommitRuneState ==
    /\ tx_block <= MaxRuneHeight
    /\ rune_table' = updated(rune_table \cup Values(block_data.new_runes),
                             block_data.rune_updates)
    /\ rune_utxos' = rune_utxos \cup unique_rows(block_data.new_utxos)
    /\ block_data' = reset_block_data(block_data)
    /\ tx_block' = tx_block + 1
    /\ tx_n' = 1
    /\ UNCHANGED <<generation, spent, txs, rune_faults>>
    /\ UNCHANGED <<allRtVars, cancelVars, statusVars, addressVars, collectorVars, reserveVars, mempoolVars, pureVars>>

\* a reorganization seen when the next block is fetched: DB::drop_blocks or
\* DB::drop_runes_blocks deletes the rune rows from height on, and indexing
\* goes on from height on the new chain
DropRuneBlocks ==
    /\ generation < MaxRuneReorgs
    /\ tx_n = 1
    /\ \E height \in 1..(tx_block - 1) :
          /\ rune_utxos' = {u \in rune_utxos : u.block < height}
          /\ rune_table' = {r \in rune_table : r.block < height}
          /\ spent' = {sp \in spent : sp[2] < height}
          /\ tx_block' = height
    /\ generation' = generation + 1
    /\ UNCHANGED <<block_data, tx_n, txs, rune_faults>>
    /\ UNCHANGED <<allRtVars, cancelVars, statusVars, addressVars, collectorVars, reserveVars, mempoolVars, pureVars>>

\* a rune with mint terms and no premine that a block below the first one
\* of this run etched
EtchedBefore ==
    [block |-> 0, tx_id |-> 1, name |-> <<"B">>, mints |-> 0, minted |-> 0, premine |-> 0,
     burned |-> 0, in_circulation |-> 0, cenotaph |-> FALSE, terms |-> MintTerms]

\* the runes indexer starts on a store that holds a rune etched before; the
\* store reads of this run do not fail
RunesEtchedInit ==
    /\ RtIdle
    /\ StatusIdle
    /\ AddressIdle
    /\ CollectorIdle
    /\ ReserveIdle
    /\ MempoolIdle
    /\ PureIdle
    /\ rune_table = {EtchedBefore}
    /\ rune_utxos = {}
    /\ block_data = EmptyBlockData
    /\ tx_block = 1
    /\ tx_n = 1
    /\ generation = 0
    /\ spent = {}
    /\ txs = 0
    /\ rune_faults = MaxRuneFaults

\* the runes indexer starts on a store without runes
RunesInit ==
    /\ RtIdle
    /\ StatusIdle
    /\ AddressIdle
    /\ CollectorIdle
    /\ ReserveIdle
    /\ RunesIdle
    /\ MempoolIdle
    /\ PureIdle

RunesNext ==
    \/ IndexRuneTransaction
    \/ CommitRuneState
    \/ DropRuneBlocks

SpecRunes == RunesInit /\ [][RunesNext]_vars

RunesCallNext ==
    \/ IndexRuneTransactionCall
    \/ CommitRuneState
    \/ DropRuneBlocks

\* SpecRunes with the artifact of the latest transaction on record
SpecRunesCall == RunesInit /\ [][RunesCallNext]_vars

SpecRunesEtched == RunesEtchedInit /\ [][RunesNext]_vars

RunesTypeOK ==
    /\ tx_block \in 1..(MaxRuneHeight + 1)
    /\ txs \in 0..MaxTxs
    /\ rune_faults \in 0..MaxRuneFaults
    /\ \A r \in rune_table : r.minted >= r.premine /\ r.burned >= 0 /\ r.in_circulation >= 0
    /\ \A u \in rune_utxos : u.amount > 0

(***************************************************************************)
(* Part IV, the claims                                                     *)
(***************************************************************************)
\* the step processes a transaction T
TxIndexed == txs' = txs + 1

\* the rune outputs spent by the inputs of T: the committed and the staged
\* rows of the outpoints T spends
InputRows ==
    {u \in rune_utxos \cup Values(block_data.new_utxos) :
        <<u.tx_hash, u.vout>> \in {sp[1] : sp \in spent' \ spent}}

\* the RuneOutput rows staged for T
StagedRows ==
    {block_data'.new_utxos[i] :
        i \in (Len(block_data.new_utxos) + 1)..Len(block_data'.new_utxos)}

RECURSIVE SumAmounts(_)
SumAmounts(S) == IF S = {} THEN 0
                 ELSE LET u == CHOOSE x \in S : TRUE IN u.amount + SumAmounts(S \ {u})

AmountOf(S, id) == SumAmounts({u \in S : u.rune_id = id})

\* the Rune rows as the indexer sees them: staged runes and staged updates
\* before the rows of the store
RuneRows ==
    Values(block_data.new_runes) \cup Values(block_data.rune_updates)
        \cup {r \in rune_table : r.name \notin DOMAIN block_data.rune_updates}

RuneIdsOf(S) == {rune_id(r) : r \in S}
\* a counter of the rune id among the rows S, 0 when S has no such rune
CounterOf(S, id, counter) ==
    IF id \in RuneIdsOf(S) THEN (CHOOSE r \in S : rune_id(r) = id)[counter] ELSE 0

\* T etches the rune id
EtchedByTx(id) == id \notin RuneIdsOf(RuneRows) /\ id \in RuneIdsOf(RuneRows')
PremineByTx(id) == IF EtchedByTx(id) THEN CounterOf(RuneRows', id, "premine") ELSE 0
MintedByTx(id) ==
    IF EtchedByTx(id) THEN 0
    ELSE CounterOf(RuneRows', id, "minted") - CounterOf(RuneRows, id, "minted")
BurnedByTx(id) == CounterOf(RuneRows', id, "burned") - CounterOf(RuneRows, id, "burned")

\* C6 (as stated): for every transaction T the runes indexer processes and
\* every rune R, the R amounts of the rune outputs spent by T's inputs plus
\* the amount T mints plus the premine if T etches R equal the R amounts of
\* the RuneOutput rows staged for T plus the increase of burned(R).
C6_Conservation ==
    [][TxIndexed =>
          \A id \in RuneIdsOf(RuneRows) \cup RuneIdsOf(RuneRows') \cup RuneIdsOf(rune_table) :
              AmountOf(InputRows, id) + MintedByTx(id) + PremineByTx(id)
                  = AmountOf(StagedRows, id) + BurnedByTx(id)]_vars

\* the rune id among the rows S
RowOf(S, id) == CHOOSE r \in S : rune_id(r) = id

C25_OneRowPerName ==
    \A r1 \in RuneRows \cup rune_table : \A r2 \in RuneRows \cup rune_table :
        r1.name = r2.name => rune_id(r1) = rune_id(r2)

\* C23: a cenotaph stages no RuneOutput row, and for every rune R burned(R)
\* rises by exactly what the inputs carry of R plus what the transaction mints
\* of R, and in_circulation(R), which the mint has raised by the minted
\* amount, falls by the same amount.
C23_CenotaphBurns ==
    [][(TxIndexed /\ fn_call'.kind = "Cenotaph") =>
          /\ StagedRows = {}
          /\ \A id \in RuneIdsOf(RuneRows) \cup RuneIdsOf(RuneRows') :
                /\ BurnedByTx(id) = AmountOf(InputRows, id) + MintedByTx(id)
                /\ CounterOf(RuneRows', id, "in_circulation")
                      = CounterOf(RuneRows, id, "in_circulation")
                          + MintedByTx(id) - BurnedByTx(id)]_vars

RuneCommit == tx_block' = tx_block + 1

C33_BurnedLeCirculation ==
    \A r \in RuneRows \cup rune_table : r.burned <= r.in_circulation

\* C33 (amended): after any sequence of mints and burns every rune row
\* satisfies burned <= minted, and in_circulation is not negative.
C33_BurnedLeMinted ==
    \A r \in RuneRows \cup rune_table : r.burned <= r.minted /\ r.in_circulation >= 0

\* more than half of what was minted of a rune has been burned
C33_Witness ==
    \E r \in RuneRows \cup rune_table :
        /\ r.burned > r.in_circulation
        /\ r.in_circulation > 0

\* C37: after a reorganization was handled, the counters of every rune are
\* those of the new chain indexed from scratch. Here the rune of the store was
\* etched below the first block of the run and no block below it is ever
\* replaced: once the rows from height 1 on are dropped and before a
\* transaction of the new block 1 is indexed, the store is the store of the
\* chain up to height 0, on which the rune has no mint and no burn
C37_ReorgCounters ==
    (generation > 0 /\ tx_block = 1 /\ tx_n = 1) => rune_table = {EtchedBefore}

(***************************************************************************)
(* Part V: the mempool index of the API (rest/mempool_cache.rs)            *)
(*                                                                         *)
(* A txid is a string, an outpoint a number; TxInputs(id) are the          *)
(* previous_output of the inputs of the transaction, in their order.       *)
(***************************************************************************)
\* the transactions the node's mempool may hold, and the outpoints they spend
MempoolTxs == {"t1", "t2"}
OutPoints == {1, 2, 3}
TxInputs(id) == IF id = "t1" THEN <<1, 2>> ELSE <<3>>

\* the elements of a Vec
Elems(s) == {s[i] : i \in DOMAIN s}
\* HashMap::remove
Remove(map, k) == [x \in (DOMAIN map) \ {k} |-> map[x]]

\* (mutation of read_granted: readers do not wait for the writer)
read_granted_always == TRUE

\* RwLock::read is granted while no writer holds the lock
read_granted == rwlock # "write"

\* the sets of the State a reader is given
View == [txs |-> mi.txs, utxos |-> mi.utxos]

\* the mempool of the node changes: transactions come in, are mined, dropped
\* or replaced
NodeMempoolChange ==
    /\ \E m \in SUBSET MempoolTxs : m # node_mempool /\ node_mempool' = m
    /\ UNCHANGED <<mi, mpc, tx_list, disappeared, appeared, todo, mp_new_utxos, rwlock, fetched,
                   applied, seen>>
    /\ UNCHANGED <<allRtVars, cancelVars, statusVars, addressVars, collectorVars, reserveVars, runesVars, pureVars>>

\* refresh: get_raw_mempool
GetRawMempool ==
    /\ mpc = "refresh"
    /\ tx_list' = node_mempool
    /\ mpc' = "diff"
    /\ UNCHANGED <<node_mempool, mi, disappeared, appeared, todo, mp_new_utxos, rwlock, fetched,
                   applied, seen>>
    /\ UNCHANGED <<allRtVars, cancelVars, statusVars, addressVars, collectorVars, reserveVars, runesVars, pureVars>>

\* refresh: get_raw_mempool returns Err, refresh returns
GetRawMempoolErr ==
    /\ mpc = "refresh"
    /\ mpc' = "sleep"
    /\ UNCHANGED <<node_mempool, mi, tx_list, disappeared, appeared, todo, mp_new_utxos, rwlock,
                   fetched, applied, seen>>
    /\ UNCHANGED <<allRtVars, cancelVars, statusVars, addressVars, collectorVars, reserveVars, runesVars, pureVars>>

\* refresh: disappeared and appeared, computed under the read lock
RefreshDiff ==
    /\ mpc = "diff"
    /\ read_granted
    /\ disappeared' = mi.txs \ tx_list
    /\ appeared' = tx_list \ mi.txs
    /\ todo' = tx_list \ mi.txs
    /\ mp_new_utxos' = <<>>
    /\ mpc' = "fetch"
    /\ UNCHANGED <<node_mempool, mi, tx_list, rwlock, fetched, applied, seen>>
    /\ UNCHANGED <<allRtVars, cancelVars, statusVars, addressVars, collectorVars, reserveVars, runesVars, pureVars>>

\* refresh, one turn of the loop over appeared: get_raw_transaction of a
\* transaction that is in the node's mempool
GetRawTransaction ==
    /\ mpc = "fetch"
    /\ \E id \in todo :
          /\ id \in node_mempool
          /\ mp_new_utxos' = mp_new_utxos \o [i \in DOMAIN TxInputs(id) |-> <<id, TxInputs(id)[i]>>]
          /\ fetched' = fetched \cup {id}
          /\ todo' = todo \ {id}
    /\ UNCHANGED <<node_mempool, mi, mpc, tx_list, disappeared, appeared, rwlock, applied, seen>>
    /\ UNCHANGED <<allRtVars, cancelVars, statusVars, addressVars, collectorVars, reserveVars, runesVars, pureVars>>

\* refresh, one turn of the loop over appeared: get_raw_transaction returns
\* Err (the transaction was dropped, replaced or mined, or the call failed)
GetRawTransactionErr ==
    /\ mpc = "fetch"
    /\ \E id \in todo : todo' = todo \ {id}
    /\ UNCHANGED <<node_mempool, mi, mpc, tx_list, disappeared, appeared, mp_new_utxos, rwlock,
                   fetched, applied, seen>>
    /\ UNCHANGED <<allRtVars, cancelVars, statusVars, addressVars, collectorVars, reserveVars, runesVars, pureVars>>

\* refresh: the write lock is taken
WriteLock ==
    /\ mpc = "fetch"
    /\ todo = {}
    /\ rwlock = "free"
    /\ rwlock' = "write"
    /\ mpc' = "remove"
    /\ UNCHANGED <<node_mempool, mi, tx_list, disappeared, appeared, todo, mp_new_utxos, fetched,
                   applied, seen>>
    /\ UNCHANGED <<allRtVars, cancelVars, statusVars, addressVars, collectorVars, reserveVars, runesVars, pureVars>>

\* refresh, one turn of the loop over disappeared
RemoveDisappeared ==
    /\ mpc = "remove"
    /\ \E id \in disappeared :
          LET outs == IF id \in DOMAIN mi.utxos_by_tx THEN Elems(mi.utxos_by_tx[id]) ELSE {}
          IN /\ mi' = [utxos |-> mi.utxos \ outs,
                       utxos_by_tx |-> Remove(mi.utxos_by_tx, id),
                       txs |-> mi.txs \ {id}]
             /\ disappeared' = disappeared \ {id}
             /\ fetched' = fetched \ {id}
    /\ UNCHANGED <<node_mempool, mpc, tx_list, appeared, todo, mp_new_utxos, rwlock, applied, seen>>
    /\ UNCHANGED <<allRtVars, cancelVars, statusVars, addressVars, collectorVars, reserveVars, runesVars, pureVars>>

\* refresh, one turn of the loop over new_utxos
InsertNewUtxo ==
    /\ mpc = "remove"
    /\ disappeared = {}
    /\ mp_new_utxos # <<>>
    /\ LET id == Head(mp_new_utxos)[1]
           out == Head(mp_new_utxos)[2]
           emptied == Put(mi.utxos_by_tx, id, <<>>)
       IN mi' = [utxos |-> mi.utxos \cup {out},
                 utxos_by_tx |-> Put(emptied, id, Append(emptied[id], out)),
                 txs |-> mi.txs]
    /\ mp_new_utxos' = Tail(mp_new_utxos)
    /\ UNCHANGED <<node_mempool, mpc, tx_list, disappeared, appeared, todo, rwlock, fetched,
                   applied, seen>>
    /\ UNCHANGED <<allRtVars, cancelVars, statusVars, addressVars, collectorVars, reserveVars, runesVars, pureVars>>

\* refresh: txs.extend(appeared), the write lock is dropped and refresh
\* returns
ExtendTxs ==
    /\ mpc = "remove"
    /\ disappeared = {}
    /\ mp_new_utxos = <<>>
    /\ mi' = [mi EXCEPT !.txs = @ \cup appeared]
    /\ applied' = [txs |-> mi.txs \cup appeared, utxos |-> mi.utxos]
    /\ rwlock' = "free"
    /\ mpc' = "sleep"
    /\ UNCHANGED <<node_mempool, tx_list, disappeared, appeared, todo, mp_new_utxos, fetched, seen>>
    /\ UNCHANGED <<allRtVars, cancelVars, statusVars, addressVars, collectorVars, reserveVars, runesVars, pureVars>>

\* refresh_state_routine: the interval has passed
Sleep ==
    /\ mpc = "sleep"
    /\ mpc' = "refresh"
    /\ UNCHANGED <<node_mempool, mi, tx_list, disappeared, appeared, todo, mp_new_utxos, rwlock,
                   fetched, applied, seen>>
    /\ UNCHANGED <<allRtVars, cancelVars, statusVars, addressVars, collectorVars, reserveVars, runesVars, pureVars>>

\* refresh_state_routine: the task is cancelled
Cancelled ==
    /\ mpc = "sleep"
    /\ mpc' = "cancelled"
    /\ UNCHANGED <<node_mempool, mi, tx_list, disappeared, appeared, todo, mp_new_utxos, rwlock,
                   fetched, applied, seen>>
    /\ UNCHANGED <<allRtVars, cancelVars, statusVars, addressVars, collectorVars, reserveVars, runesVars, pureVars>>

\* filter_used_utxos, filter_used_runes_utxos of a request: the State is read
\* under the read lock
FilterUsedUtxos ==
    /\ read_granted
    /\ seen' = View
    /\ UNCHANGED <<node_mempool, mi, mpc, tx_list, disappeared, appeared, todo, mp_new_utxos, rwlock,
                   fetched, applied>>
    /\ UNCHANGED <<allRtVars, cancelVars, statusVars, addressVars, collectorVars, reserveVars, runesVars, pureVars>>

\* MempoolCacheManager::new, and refresh_state_routine spawned
MempoolInit ==
    /\ RtIdle
    /\ StatusIdle
    /\ AddressIdle
    /\ CollectorIdle
    /\ ReserveIdle
    /\ RunesIdle
    /\ PureIdle
    /\ node_mempool \in SUBSET MempoolTxs
    /\ mi = [txs |-> {}, utxos |-> {}, utxos_by_tx |-> EmptyMap]
    /\ mpc = "refresh"
    /\ tx_list = {}
    /\ disappeared = {}
    /\ appeared = {}
    /\ todo = {}
    /\ mp_new_utxos = <<>>
    /\ rwlock = "free"
    /\ fetched = {}
    /\ applied = [txs |-> {}, utxos |-> {}]
    /\ seen = None

MempoolNext ==
    \/ NodeMempoolChange
    \/ GetRawMempool
    \/ GetRawMempoolErr
    \/ RefreshDiff
    \/ GetRawTransaction
    \/ GetRawTransactionErr
    \/ WriteLock
    \/ RemoveDisappeared
    \/ InsertNewUtxo
    \/ ExtendTxs
    \/ Sleep
    \/ Cancelled
    \/ FilterUsedUtxos

SpecMempool == MempoolInit /\ [][MempoolNext]_vars

MempoolTypeOK ==
    /\ mpc \in {"refresh", "diff", "fetch", "remove", "sleep", "cancelled"}
    /\ rwlock \in {"free", "write"}
    /\ mi.txs \subseteq MempoolTxs
    /\ mi.utxos \subseteq OutPoints
    /\ DOMAIN mi.utxos_by_tx \subseteq MempoolTxs

(***************************************************************************)
(* Part V, the claims                                                      *)
(***************************************************************************)
\* the input outpoints of the cached transactions whose raw form was fetched
FetchedInputs == UNION {Elems(TxInputs(id)) : id \in mi.txs \cap fetched}

\* C17 (as stated): between the updates of the refresh task the consumed set
\* is the union of the input outpoints of the cached transactions whose raw
\* form was fetched, and the reverse map of each of them lists all of its
\* input outpoints (so that all of them are removed when it disappears).
C17_ConsumedIsUnionOfInputs ==
    rwlock = "free" =>
        /\ mi.utxos = FetchedInputs
        /\ \A id \in mi.txs \cap fetched :
              /\ id \in DOMAIN mi.utxos_by_tx
              /\ Elems(mi.utxos_by_tx[id]) = Elems(TxInputs(id))

\* C18: a filter call reads the txid set and the consumed set as the last
\* completed update of the refresh task left them, which is the state before
\* the update of a refresh in progress and the state after it once it is
\* done; and the State changes only in steps of the refresh task that holds
\* the write lock.
C18_FilterSeesWholeUpdates ==
    [][/\ FilterUsedUtxos => seen' = applied
       /\ mi' # mi => (rwlock = "write" /\ mpc = "remove" /\ seen' = seen)]_vars

\* a filter call has read the sets while a refresh had fetched the inputs of
\* an appeared transaction; the refresh has since applied its update
C18_Witness ==
    /\ seen # None
    /\ seen # View
    /\ seen.utxos = {}
    /\ View.utxos # {}
    /\ mpc = "sleep"

(***************************************************************************)
(* Part VI. MintChecker (runes_indexer.rs), as a function of the rune's    *)
(* block, its mints, its terms and the height of the minting block.        *)
(*                                                                         *)
(* fn_call is the call: the checker built from a rune row and the height;  *)
(* fn_ret is None until the call returns and Some(result) after. Heights   *)
(* are those of stored blocks (an i64 column), so they stay below          *)
(* u64::MAX, while an offset is any u64 and block + offset may saturate.   *)
(***************************************************************************)

\* the largest height of a minting block
MaxMintHeight == 5

\* the largest number of mints already recorded
MaxMints == 2

\* Terms::offset and Terms::height, each side absent or set
Offsets == {NoHeight, 1, 3, U64Max}
AbsoluteHeights == {NoHeight, 2, 4}

\* Rune::terms(): none, or Terms [amount, cap, height, offset]
TermsMenu ==
    {NoFullTerms}
      \cup [some : {TRUE}, amount : {NoAmount, 1}, cap : {NoAmount, 1, MaxMints},
            height : AbsoluteHeights \X AbsoluteHeights,
            offset : Offsets \X Offsets]

\* the checkers MintChecker::new builds
Checkers == [block : 0..2, mints : 0..MaxMints, terms : TermsMenu]

MintCheckerInit ==
    /\ fn_call \in [checker : Checkers, height : 0..MaxMintHeight]
    /\ fn_ret = None
    /\ RtIdle
    /\ StatusIdle
    /\ AddressIdle
    /\ CollectorIdle
    /\ ReserveIdle
    /\ RunesIdle
    /\ MempoolIdle

\* RunesIndexer::mint calls mintable(height) on the checker
Mintable ==
    /\ fn_ret = None
    /\ fn_ret' = Some(MintChecker_mintable(fn_call.checker, fn_call.height))
    /\ UNCHANGED <<fn_call, allRtVars, cancelVars, statusVars, addressVars, collectorVars, reserveVars, runesVars, mempoolVars>>

MintCheckerNext == Mintable

SpecMintChecker == MintCheckerInit /\ [][MintCheckerNext]_vars

MintCheckerTypeOK ==
    /\ fn_call \in [checker : Checkers, height : 0..MaxMintHeight]
    /\ fn_ret # None =>
         /\ fn_ret[1].ok \in BOOLEAN
         /\ fn_ret[1].amount \in {NoAmount} \cup 0..1

(***************************************************************************)
(* Claims on Part VI.                                                      *)
(***************************************************************************)

\* terms.cap and terms.amount as the claim reads them: an absent one is 0
CapOf(c) == IF c.terms.cap = NoAmount THEN 0 ELSE c.terms.cap
AmountOfTerms(c) == IF c.terms.amount = NoAmount THEN 0 ELSE c.terms.amount

\* B + offset, as a number
Relative(c, side) == c.block + c.terms.offset[side]

\* the start the claim states: the larger of B + start_offset and the absolute
\* start height, or whichever of the two is defined
StartOf(c) ==
    IF c.terms.offset[1] # NoHeight /\ c.terms.height[1] # NoHeight
    THEN Max(Relative(c, 1), c.terms.height[1])
    ELSE IF c.terms.offset[1] # NoHeight THEN Relative(c, 1)
    ELSE c.terms.height[1]

\* the end the claim states: the smaller of B + end_offset and the absolute end
\* height, or whichever of the two is defined
EndOf(c) ==
    IF c.terms.offset[2] # NoHeight /\ c.terms.height[2] # NoHeight
    THEN Min(Relative(c, 2), c.terms.height[2])
    ELSE IF c.terms.offset[2] # NoHeight THEN Relative(c, 2)
    ELSE c.terms.height[2]

\* the condition of the claim on a checker with terms and a height
Open(c, h) ==
    /\ c.mints < CapOf(c)
    /\ StartOf(c) # NoHeight => h >= StartOf(c)
    /\ EndOf(c) # NoHeight => h < EndOf(c)

\* C21: for a rune with terms, mintable(H) succeeds, with the amount of the
\* terms, exactly when mints < cap, H >= start whenever start is defined and
\* H < end whenever end is defined, where start is the larger of B + start_offset
\* and the absolute start height (or whichever is defined) and end the smaller
\* of B + end_offset and the absolute end height (or whichever is defined); a
\* rune without terms is never mintable.
C21_Mintable ==
    fn_ret # None =>
        LET c == fn_call.checker
            r == fn_ret[1]
        IN  /\ ~c.terms.some => ~r.ok
            /\ c.terms.some =>
                 /\ r.ok <=> Open(c, fn_call.height)
                 /\ r.ok => r.amount = AmountOfTerms(c)

\* a mint inside a window both of whose ends are the relative ones of two
\* defined pairs: start = max(B + 1, 2) = B + 1 and end = min(B + 3, 4) = 4
C21_Witness ==
    /\ fn_ret # None
    /\ fn_ret[1].ok
    /\ fn_ret[1].amount = 1
    /\ fn_call.checker.block = 2
    /\ fn_call.checker.terms.offset = <<1, 3>>
    /\ fn_call.checker.terms.height = <<2, 4>>
    /\ fn_call.height = 3

(***************************************************************************)
(* Part VII. One edict of a runestone (the loop body over runestone.edicts *)
(* of _index_transaction), as a function of the outputs of the             *)
(* transaction, the unallocated balance of the rune and the edict.         *)
(***************************************************************************)

\* the largest unallocated balance of the rune
MaxBalance == 101

\* the largest amount of an edict
MaxEdictAmount == 3

\* the largest number of outputs of the transaction
MaxOutputs == 3

\* the rune of the edict
EdictRune == <<1, 0>>

\* tx.output: for each output, whether it is an OP_RETURN
EdictOutputs == UNION {[1..n -> BOOLEAN] : n \in 1..MaxOutputs}

\* the edicts the parser produces for a transaction: output <= tx.output.len()
EdictCalls ==
    {c \in [output : EdictOutputs, balance : 0..MaxBalance, amount : 0..MaxEdictAmount,
            to : 0..MaxOutputs] : c.to <= Len(c.output)}

EdictInit ==
    /\ fn_call \in EdictCalls
    /\ fn_ret = None
    /\ RtIdle
    /\ StatusIdle
    /\ AddressIdle
    /\ CollectorIdle
    /\ ReserveIdle
    /\ RunesIdle
    /\ MempoolIdle

\* one turn of the loop over the edicts, on maps that hold the balance of the
\* rune and nothing allocated
ApplyEdict ==
    /\ fn_ret = None
    /\ fn_ret' = Some(apply_edict(
                        [unallocated |-> Put(EmptyMap, EdictRune, fn_call.balance),
                         allocated |-> [vout \in 1..Len(fn_call.output) |-> EmptyMap]],
                        [output |-> fn_call.output],
                        [id |-> EdictRune, amount |-> fn_call.amount, output |-> fn_call.to],
                        NoId))
    /\ UNCHANGED <<fn_call, allRtVars, cancelVars, statusVars, addressVars, collectorVars, reserveVars, runesVars, mempoolVars>>

EdictNext == ApplyEdict

SpecEdict == EdictInit /\ [][EdictNext]_vars

(***************************************************************************)
(* Claims on Part VII.                                                     *)
(***************************************************************************)

\* the non-OP_RETURN outputs of the call, and how many of them come before v
Eligible == {v \in 1..Len(fn_call.output) : ~fn_call.output[v]}
Rank(v) == Cardinality({u \in Eligible : u < v})

\* what output v received
Received(v) == Get(fn_ret[1].allocated[v], EdictRune)

RECURSIVE TotalFrom(_)
TotalFrom(v) == IF v > Len(fn_call.output) THEN 0 ELSE Received(v) + TotalFrom(v + 1)

\* C22: an edict to all outputs (output index = number of outputs), with an
\* unallocated balance b and n >= 1 non-OP_RETURN outputs: with amount 0 the
\* first b mod n of them receive floor(b / n) + 1 and the others floor(b / n);
\* with another amount each of them, in order, receives min(amount, what is
\* still unallocated); the OP_RETURN outputs receive nothing, and the total is
\* at most b.
C22_EdictToAllOutputs ==
    (fn_ret # None /\ fn_call.to = Len(fn_call.output) /\ Eligible # {}) =>
        LET b == fn_call.balance
            n == Cardinality(Eligible)
        IN  /\ fn_call.amount = 0 =>
                 \A v \in Eligible :
                     Received(v) = (b \div n) + (IF Rank(v) < b % n THEN 1 ELSE 0)
            /\ fn_call.amount # 0 =>
                 \A v \in Eligible :
                     Received(v) = Min(fn_call.amount,
                                       Max(b - Rank(v) * fn_call.amount, 0))
            /\ \A v \in 1..Len(fn_call.output) : fn_call.output[v] => Received(v) = 0
            /\ TotalFrom(1) <= b
            /\ fn_ret[1].unallocated[EdictRune] = b - TotalFrom(1)

\* 101 over three outputs gives 34, 34, 33
C22_Witness ==
    /\ fn_ret # None
    /\ fn_call = [output |-> <<FALSE, FALSE, FALSE>>, balance |-> 101, amount |-> 0, to |-> 3]
    /\ Received(1) = 34
    /\ Received(2) = 34
    /\ Received(3) = 33

(***************************************************************************)
(* Part VIII. The disposition of what the edicts left unallocated (the     *)
(* end of _index_transaction), as a function of the outputs of the         *)
(* transaction, the artifact, the unallocated balance of a rune and what   *)
(* the edicts allocated of it to each output.                              *)
(***************************************************************************)

\* the largest balance the edicts left unallocated
MaxLeft == 2

\* the largest amount the edicts allocated to one output
MaxAllocated == 1

\* the rune of the balances, staged by an earlier transaction of the block
\* with all that the transaction moves in circulation
DisposedRune ==
    [block |-> 1, tx_id |-> 1, name |-> <<"A">>, mints |-> 0,
     minted |-> MaxLeft + MaxOutputs * MaxAllocated,
     premine |-> MaxLeft + MaxOutputs * MaxAllocated, burned |-> 0,
     in_circulation |-> MaxLeft + MaxOutputs * MaxAllocated, cenotaph |-> FALSE,
     terms |-> NoTerms]

\* the transaction at tx 2 of block 1: its outputs, the kind of its artifact
\* and the pointer of a runestone, with the balances after the edicts
DispositionCalls ==
    {c \in [output : EdictOutputs, kind : {"None", "Runestone", "Cenotaph"},
            pointer : {NoPointer} \cup 0..(MaxOutputs - 1), balance : 0..MaxLeft,
            allocated : UNION {[1..n -> 0..MaxAllocated] : n \in 1..MaxOutputs}] :
        /\ Len(c.allocated) = Len(c.output)
        /\ c.pointer < Len(c.output)
        /\ c.kind # "Runestone" => c.pointer = NoPointer
        /\ c.kind # "Runestone" => \A v \in 1..Len(c.output) : c.allocated[v] = 0}

DispositionInit ==
    /\ fn_call \in DispositionCalls
    /\ fn_ret = None
    /\ RtIdle
    /\ StatusIdle
    /\ AddressIdle
    /\ CollectorIdle
    /\ ReserveIdle
    /\ RunesIdle
    /\ MempoolIdle

\* _index_transaction from the disposition of the unallocated balances on
AssignUnallocated ==
    /\ fn_ret = None
    /\ fn_ret' = Some(assign_unallocated(
                        store_new_rune(EmptyBlockData, DisposedRune),
                        [block |-> 1, tx_n |-> 2, txid |-> <<1, 2, 0>>],
                        [input |-> <<>>, output |-> fn_call.output,
                         artifact |-> [NoArtifact EXCEPT !.kind = fn_call.kind,
                                                         !.pointer = fn_call.pointer]],
                        [unallocated |-> Put(EmptyMap, rune_id(DisposedRune), fn_call.balance),
                         allocated |-> [vout \in 1..Len(fn_call.output) |->
                                           IF fn_call.allocated[vout] > 0
                                           THEN Put(EmptyMap, rune_id(DisposedRune),
                                                    fn_call.allocated[vout])
                                           ELSE EmptyMap]]))
    /\ UNCHANGED <<fn_call, allRtVars, cancelVars, statusVars, addressVars, collectorVars, reserveVars, runesVars, mempoolVars>>

DispositionNext == AssignUnallocated

SpecDisposition == DispositionInit /\ [][DispositionNext]_vars

(***************************************************************************)
(* Claims on Part VIII.                                                    *)
(***************************************************************************)

\* the output the claim sends the unallocated balance to; 0 when there is none
Target ==
    IF fn_call.pointer # NoPointer THEN fn_call.pointer + 1
    ELSE IF Eligible # {} THEN CHOOSE v \in Eligible : \A u \in Eligible : v <= u
    ELSE 0

\* what output v holds in the end
Final(v) == fn_call.allocated[v] + (IF v = Target THEN fn_call.balance ELSE 0)

RECURSIVE FinalOnOpReturn(_)
FinalOnOpReturn(v) ==
    IF v > Len(fn_call.output) THEN 0
    ELSE (IF fn_call.output[v] THEN Final(v) ELSE 0) + FinalOnOpReturn(v + 1)

\* the RuneOutput rows staged, as (vout, amount)
RowsStaged == {<<u.vout, u.amount>> : u \in Elems(fn_ret[1].new_utxos)}

\* C24: for a transaction that is not a cenotaph, what the edicts left
\* unallocated goes to the pointer output of the runestone if a pointer is set,
\* else to the first non-OP_RETURN output, else it is burned; what ends up on
\* an OP_RETURN output produces no RuneOutput row and is burned; the other
\* outputs that hold an amount have one row with it.
C24_Disposition ==
    (fn_ret # None /\ fn_call.kind # "Cenotaph") =>
        /\ RowsStaged = {<<v - 1, Final(v)>> : v \in {u \in Eligible : Final(u) > 0}}
        /\ Len(fn_ret[1].new_utxos) = Cardinality(RowsStaged)
        /\ fn_ret[1].new_runes[DisposedRune.name].burned
              = (IF Target = 0 THEN fn_call.balance ELSE 0) + FinalOnOpReturn(1)
        /\ fn_ret[1].new_runes[DisposedRune.name].in_circulation
              = DisposedRune.in_circulation
                  - fn_ret[1].new_runes[DisposedRune.name].burned

\* a runestone whose pointer names an OP_RETURN output: the unallocated
\* balance is burned although the first output could take it, and the amount an
\* edict gave to the first output has its row
C24_Witness ==
    /\ fn_ret # None
    /\ fn_call = [output |-> <<FALSE, TRUE>>, kind |-> "Runestone", pointer |-> 1,
                  balance |-> 2, allocated |-> <<1, 0>>]
    /\ RowsStaged = {<<0, 1>>}
    /\ fn_ret[1].new_runes[DisposedRune.name].burned = 2

(***************************************************************************)
(* Part IX: PageParams::limit_offset                                       *)
(***************************************************************************)
DEFAULT_LIMIT == 50
MAX_LIMIT == 1000
MAX_PAGE == 100

\* Option<u32>::unwrap_or_default
Option_unwrap_or_default(o) == IF o = None THEN 0 ELSE o[1]

\* the values of anyhow::Result<(u32, u32)>
PageOk(lim, off) == [ok |-> TRUE, limit |-> lim, offset |-> off]
PageErr(what) == [ok |-> FALSE, err |-> what]

\* PageParams::limit_offset with `limit` given
limit_offset_of(limit, off, page) ==
    IF limit > MAX_LIMIT THEN PageErr("limit")
    ELSE IF off > MAX_PAGE * limit THEN PageErr("offset")
    ELSE IF off > 0 THEN PageOk(limit, off)
    ELSE IF page > MAX_PAGE THEN PageErr("page")
    ELSE PageOk(limit, page * limit)

\* PageParams::limit_offset
limit_offset(self) ==
    IF self.limit = None THEN PageOk(50, 0)
    ELSE limit_offset_of(IF self.limit[1] = 0 THEN DEFAULT_LIMIT ELSE self.limit[1],
                         Option_unwrap_or_default(self.offset),
                         Option_unwrap_or_default(self.page))

\* the query parameters of a request: each of limit, offset and page absent
\* or a u32
PageLimits == {None, Some(0), Some(1), Some(DEFAULT_LIMIT), Some(MAX_LIMIT), Some(MAX_LIMIT + 1)}
PageOffsets == {None, Some(0), Some(1), Some(MAX_PAGE), Some(MAX_PAGE + 1),
                Some(MAX_PAGE * MAX_LIMIT + 1)}
PageNumbers == {None, Some(0), Some(1), Some(MAX_PAGE), Some(MAX_PAGE + 1)}
PageCalls == [limit : PageLimits, offset : PageOffsets, page : PageNumbers]

PageInit ==
    /\ fn_call \in PageCalls
    /\ fn_ret = None
    /\ RtIdle
    /\ StatusIdle
    /\ AddressIdle
    /\ CollectorIdle
    /\ ReserveIdle
    /\ RunesIdle
    /\ MempoolIdle

\* a handler calls limit_offset on the parameters of the request
LimitOffset ==
    /\ fn_ret = None
    /\ fn_ret' = Some(limit_offset(fn_call))
    /\ UNCHANGED <<fn_call, allRtVars, cancelVars, statusVars, addressVars, collectorVars, reserveVars, runesVars, mempoolVars>>

PageNext == LimitOffset

SpecPage == PageInit /\ [][PageNext]_vars

\* C31: limit_offset returns limit 50 when no limit is given, rejects a limit
\* above 1000 and a page above 100, returns a supplied offset > 0 whatever the
\* page and also without a limit, and with no offset returns page * limit
C31_LimitOffset ==
    fn_ret # None =>
        LET r == fn_ret[1]
            limit == Option_unwrap_or_default(fn_call.limit)
            off == Option_unwrap_or_default(fn_call.offset)
            page == Option_unwrap_or_default(fn_call.page)
        IN /\ fn_call.limit = None => r.ok /\ r.limit = 50
           /\ limit > 1000 => ~r.ok
           /\ page > 100 => ~r.ok
           /\ (off > 0 /\ r.ok) => r.offset = off
           /\ (off = 0 /\ r.ok) => r.offset = page * r.limit

(***************************************************************************)
(* Part X: MetricsCollector::service_status and GET /healthcheck           *)
(***************************************************************************)
\* CACHE_TTL, in seconds
CACHE_TTL == 10
\* the clock stops at MaxTime
MaxTime == 12

\* MetricsCollector::aggregate_status on the answers of get_block_count and of
\* get_last_indexed_block for the two indexers; None stands for Err
aggregate_status_behind4(node, btc_answer, runes_answer) ==
    LET btc_height == Option_unwrap_or_default(node)
        btc == Option_unwrap_or_default(btc_answer)
        runes_height == Option_unwrap_or_default(runes_answer)
        db == btc_answer # None /\ runes_answer # None
        btc_indexer_ok == Max(btc_height, btc) - btc <= 4
        runes_indexer_ok == Max(btc_height, runes_height) - runes_height <= 4
    IN [healthy |-> db /\ node # None /\ btc_indexer_ok /\ runes_indexer_ok,
        db |-> db, btc_node |-> node # None, btc_height |-> btc_height,
        btc_indexer |-> btc_indexer_ok, btc_indexer_height |-> btc,
        runes_indexer |-> runes_indexer_ok, runes_indexer_height |-> runes_height]

aggregate_status(node, btc_answer, runes_answer) ==
    LET btc_height == Option_unwrap_or_default(node)
        btc == Option_unwrap_or_default(btc_answer)
        runes_height == Option_unwrap_or_default(runes_answer)
        db == btc_answer # None /\ runes_answer # None
        btc_indexer_ok == Max(btc_height, btc) - btc <= 3
        runes_indexer_ok == Max(btc_height, runes_height) - runes_height <= 3
    IN [healthy |-> db /\ node # None /\ btc_indexer_ok /\ runes_indexer_ok,
        db |-> db, btc_node |-> node # None, btc_height |-> btc_height,
        btc_indexer |-> btc_indexer_ok, btc_indexer_height |-> btc,
        runes_indexer |-> runes_indexer_ok, runes_indexer_height |-> runes_height]

\* the handler healthcheck on the snapshot service_status returned
healthcheck(snapshot, hit) ==
    [code |-> IF snapshot.healthy THEN 200 ELSE 503, status |-> snapshot, hit |-> hit]

\* what the node answers to get_block_count and the store to
\* get_last_indexed_block: Err, or a height
NodeAnswers == {None, Some(0), Some(4)}
StoreAnswers == {None, Some(0), Some(1), Some(5)}

\* service_status reads the cache: a snapshot younger than CACHE_TTL is
\* returned, otherwise aggregate_status is called
ServiceStatus ==
    /\ spc = "idle"
    /\ IF status # None /\ now - status[1][2] < CACHE_TTL
       THEN /\ response' = Some(healthcheck(status[1][1], TRUE))
            /\ UNCHANGED spc
       ELSE /\ spc' = "aggregate"
            /\ UNCHANGED response
    /\ UNCHANGED <<status, now, answers>>
    /\ UNCHANGED <<allRtVars, cancelVars, addressVars, collectorVars, reserveVars, runesVars, mempoolVars,
                   pureVars>>

\* aggregate_status asks the node and the store; service_status writes the
\* snapshot with the time of the write to the cache and returns it
AggregateStatus ==
    /\ spc = "aggregate"
    /\ \E node \in NodeAnswers : \E btc_answer, runes_answer \in StoreAnswers :
          /\ status' = Some(<<aggregate_status(node, btc_answer, runes_answer), now>>)
          /\ answers' = [node |-> node, btc |-> btc_answer, runes |-> runes_answer]
          /\ response' = Some(healthcheck(aggregate_status(node, btc_answer, runes_answer),
                                          FALSE))
    /\ spc' = "idle"
    /\ UNCHANGED now
    /\ UNCHANGED <<allRtVars, cancelVars, addressVars, collectorVars, reserveVars, runesVars, mempoolVars,
                   pureVars>>

\* a second passes
Tick ==
    /\ now < MaxTime
    /\ now' = now + 1
    /\ UNCHANGED <<status, spc, response, answers>>
    /\ UNCHANGED <<allRtVars, cancelVars, addressVars, collectorVars, reserveVars, runesVars, mempoolVars,
                   pureVars>>

StatusInit ==
    /\ StatusIdle
    /\ AddressIdle
    /\ RtInit
    /\ last_indexed_block = NoRow
    /\ opts = [indexer_type |-> "BitcoinUtxo", dry_run |-> FALSE, starting_height |-> 0,
               retry_on_fail |-> TRUE, skip_inputs |-> FALSE]
    /\ CollectorIdle
    /\ ReserveIdle
    /\ RunesIdle
    /\ MempoolIdle
    /\ PureIdle

StatusNext == ServiceStatus \/ AggregateStatus \/ Tick

SpecStatus == StatusInit /\ [][StatusNext]_vars

\* the store answered both queries, the node answered, and each checkpoint is
\* at most three blocks behind the tip
WithinThree(a) ==
    /\ a.btc # None
    /\ a.runes # None
    /\ a.node # None
    /\ a.node[1] - a.btc[1] <= 3
    /\ a.node[1] - a.runes[1] <= 3

\* the cached snapshot is younger than the TTL
Young == status # None /\ now - status[1][2] < CACHE_TTL

\* C32: the snapshot is healthy iff the store answered both checkpoint
\* queries, the node answered the tip query and both checkpoints are at most
\* three blocks behind the tip; GET /healthcheck answers 200 when the snapshot
\* it got is healthy and 503 otherwise; while the cached snapshot is younger
\* than the TTL it is what a call returns, and nothing is computed again
C32_Healthcheck ==
    [][/\ status' # None => (status'[1][1].healthy <=> WithinThree(answers'))
       /\ response' # None =>
             response'[1].code = (IF response'[1].status.healthy THEN 200 ELSE 503)
       /\ (Young /\ spc = "idle") =>
             /\ spc' = "idle"
             /\ status' = status
             /\ answers' = answers
             /\ response' # response => (response'[1].hit /\ response'[1].status = status[1][1])]_vars

\* a healthy snapshot, three blocks behind the tip, answered 200 from the cache
C32_Witness ==
    /\ response # None
    /\ response[1].hit
    /\ response[1].code = 200
    /\ answers = [node |-> Some(4), btc |-> Some(1), runes |-> Some(5)]
    /\ now - status[1][2] = CACHE_TTL - 1

(***************************************************************************)
(* Part XI: RunesIndexer::unallocated on the outputs staged in the block   *)
(***************************************************************************)
\* the largest amount of a staged row
MaxStaged == 2

\* the runes etched by the transactions 1 and 2 of block 1, staged
StagedRune(rune_name, n) ==
    [block |-> 1, tx_id |-> n, name |-> rune_name, mints |-> 0,
     minted |-> 2 * MaxStaged, premine |-> 2 * MaxStaged, burned |-> 0,
     in_circulation |-> 2 * MaxStaged, cenotaph |-> FALSE, terms |-> NoTerms]

\* the row State::store_new_runes_utxo got for output vout of transaction
\* n of block 1; no row for the amount 0
StagedRow(n, vout, rune, amount) ==
    IF amount = 0 THEN <<>>
    ELSE << [block |-> 1, tx_id |-> n, tx_hash |-> <<1, n, 0>>, vout |-> vout,
             rune |-> rune.name, rune_id |-> rune_id(rune), amount |-> amount] >>

\* the staging buffer after the transactions 1 and 2: transaction 1 etched A
\* to its outputs 0 and 1, transaction 2 etched B to its output 0 and moved A
\* there; with `again` the rows of an attempt that failed are still in the
\* buffer in front of the rows of the retry
StagedBlocks ==
    { [store_new_rune(store_new_rune(EmptyBlockData, StagedRune(<<"A">>, 1)),
                      StagedRune(<<"B">>, 2))
         EXCEPT !.new_utxos =
            (IF again THEN StagedRow(1, 0, StagedRune(<<"A">>, 1), a0)
                              \o StagedRow(1, 1, StagedRune(<<"A">>, 1), a1)
                      ELSE <<>>)
              \o StagedRow(1, 0, StagedRune(<<"A">>, 1), a0)
              \o StagedRow(1, 1, StagedRune(<<"A">>, 1), a1)
              \o StagedRow(2, 0, StagedRune(<<"A">>, 1), a2)
              \o StagedRow(2, 0, StagedRune(<<"B">>, 2), b)] :
        a0 \in 1..MaxStaged, a1 \in 0..MaxStaged, a2 \in 0..1, b \in 0..MaxStaged,
        again \in BOOLEAN }

\* the previous_output of the inputs of transaction 3 of the block
StagedOutPoints == { <<<<1, 1, 0>>, 0>>, <<<<1, 1, 0>>, 1>>, <<<<1, 2, 0>>, 0>> }
SpendingInputs ==
    { <<o>> : o \in StagedOutPoints }
      \cup { <<p[1], p[2]>> : p \in {q \in StagedOutPoints \X StagedOutPoints : q[1] # q[2]} }

\* a call of unallocated(tx) on the staging buffer d; failed are the inputs
\* whose select_runes_outputs fails, at most one
UnallocatedCalls ==
    { c \in [d : StagedBlocks, input : SpendingInputs, failed : {{}, {1}, {2}}] :
        c.failed \subseteq DOMAIN c.input }

UnallocatedInit ==
    /\ fn_call \in UnallocatedCalls
    /\ fn_ret = None
    /\ RtIdle
    /\ StatusIdle
    /\ AddressIdle
    /\ CollectorIdle
    /\ ReserveIdle
    /\ RunesIdle
    /\ MempoolIdle

\* _index_transaction calls unallocated(tx)
Unallocated ==
    /\ fn_ret = None
    /\ fn_ret' = Some(unallocated(fn_call.d, [input |-> fn_call.input], fn_call.failed))
    /\ UNCHANGED <<fn_call, allRtVars, cancelVars, statusVars, addressVars, collectorVars, reserveVars,
                   runesVars, mempoolVars>>

UnallocatedNext == Unallocated

SpecUnallocated == UnallocatedInit /\ [][UnallocatedNext]_vars

\* the (outpoint, rune) pairs of the staged rows at the outpoints the call
\* spends, and the amount staged for a pair
SpentPairs ==
    { <<u.tx_hash, u.vout, u.rune_id>> :
        u \in { r \in Values(fn_call.d.new_utxos) :
                  \E i \in DOMAIN fn_call.input : fn_call.input[i] = <<r.tx_hash, r.vout>> } }
PairAmount(p) ==
    (CHOOSE u \in Values(fn_call.d.new_utxos) : <<u.tx_hash, u.vout, u.rune_id>> = p).amount

RECURSIVE SumPairs(_)
SumPairs(S) == IF S = {} THEN 0
               ELSE LET p == CHOOSE x \in S : TRUE IN PairAmount(p) + SumPairs(S \ {p})

\* C35: for a transaction that spends outputs staged by earlier transactions
\* of its block, the unallocated balance of every rune is the sum of the
\* amounts staged for the (outpoint, rune) pairs it spends, each pair once
C35_StagedInputs ==
    fn_ret # None =>
        /\ fn_ret[1].ok
        /\ \A id \in {<<1, 1>>, <<1, 2>>} :
              Get(fn_ret[1].unallocated, id) = SumPairs({p \in SpentPairs : p[3] = id})

\* C40: when the read of the rune outputs of an input fails, the call returns
\* an error (which _index_transaction hands on), so that the input is not
\* taken to carry no runes
C40_ReadErrorReturned ==
    (fn_ret # None /\ fn_call.failed # {}) => ~fn_ret[1].ok

(***************************************************************************)
(* Part XII: the Address rows of the staged outputs (bitcoin_indexer.rs,   *)
(* bitcoin_indexer_state.rs; RunesIndexer and its State do the same with   *)
(* State::add_address), under the loop of Rt::_run                         *)
(***************************************************************************)
MaxAddressHeight == 3
MaxAddressFaults == 2
AddressTxPerBlock == 2
NumAddresses == 3
\* address_index is emptied by reset_state once it holds more entries
ADDRESS_INDEX_CAP == 10000000

\* the address the output of transaction n of the block at height h pays to;
\* the block at a height is the same block whenever it is fetched
pays_to(h, n) == (h + n) % NumAddresses

\* StateProvider::reset_state on the index idx: the staging buffers are
\* cleared, the index only when it is over its cap
address_index_reset(index) == IF Cardinality(index) > ADDRESS_INDEX_CAP THEN {} ELSE index

AddressFault == /\ a_faults < MaxAddressFaults
                /\ a_faults' = a_faults + 1

\* Rt::_run, the head of the loop: get_block_count answers, index_block
\* fetches the block at current_block
AddressLoop ==
    /\ apc = "loop"
    /\ a_block <= MaxAddressHeight
    /\ apc' = "index_transaction"
    /\ a_tx' = 0
    /\ UNCHANGED <<address_index, new_addresses, new_outputs, addresses, outputs_table, a_block,
                   a_faults>>
    /\ UNCHANGED <<allRtVars, cancelVars, statusVars, collectorVars, reserveVars, runesVars,
                   mempoolVars, pureVars>>

\* get_block_count fails: _run returns false, Rt::run calls reset_state and
\* _run again, which starts at starting_block()
AddressRunFailed ==
    /\ apc = "loop"
    /\ a_block <= MaxAddressHeight
    /\ AddressFault
    /\ new_addresses' = <<>>
    /\ new_outputs' = <<>>
    /\ address_index' = address_index_reset(address_index)
    /\ a_block' = IF a_block - 1 > 0 THEN a_block ELSE 0
    /\ UNCHANGED <<addresses, outputs_table, apc, a_tx>>
    /\ UNCHANGED <<allRtVars, cancelVars, statusVars, collectorVars, reserveVars, runesVars,
                   mempoolVars, pureVars>>

\* BitcoinUtxoIndexer::index_transaction of a transaction with one output
AddressIndexTransaction ==
    /\ apc = "index_transaction"
    /\ LET address == pays_to(a_block, a_tx)
           utxo == [block |-> a_block, tx_id |-> a_tx, address |-> address]
       IN  /\ IF address \notin address_index
              THEN /\ address_index' = address_index \cup {address}
                   /\ new_addresses' = Append(new_addresses, address)
              ELSE UNCHANGED <<address_index, new_addresses>>
           /\ new_outputs' = Append(new_outputs, utxo)
    /\ a_tx' = a_tx + 1
    /\ apc' = IF a_tx + 1 < AddressTxPerBlock THEN "index_transaction" ELSE "commit_state"
    /\ UNCHANGED <<addresses, outputs_table, a_block, a_faults>>
    /\ UNCHANGED <<allRtVars, cancelVars, statusVars, collectorVars, reserveVars, runesVars,
                   mempoolVars, pureVars>>

\* StateProvider::commit_state: one store transaction inserts the staged
\* Address rows (on conflict do nothing) and the staged Output rows, then
\* reset_state; the loop goes on with the next block
AddressCommitState ==
    /\ apc = "commit_state"
    /\ addresses' = addresses \cup {new_addresses[i] : i \in DOMAIN new_addresses}
    /\ outputs_table' = outputs_table \cup {new_outputs[i] : i \in DOMAIN new_outputs}
    /\ new_addresses' = <<>>
    /\ new_outputs' = <<>>
    /\ address_index' = address_index_reset(address_index)
    /\ a_block' = a_block + 1
    /\ apc' = "loop"
    /\ UNCHANGED <<a_tx, a_faults>>
    /\ UNCHANGED <<allRtVars, cancelVars, statusVars, collectorVars, reserveVars, runesVars,
                   mempoolVars, pureVars>>

\* the store transaction fails: nothing is written, index_block returns the
\* error before reset_state and the loop fetches the same block again
AddressCommitStateErr ==
    /\ apc = "commit_state"
    /\ AddressFault
    /\ apc' = "loop"
    /\ UNCHANGED <<address_index, new_addresses, new_outputs, addresses, outputs_table, a_block,
                   a_tx>>
    /\ UNCHANGED <<allRtVars, cancelVars, statusVars, collectorVars, reserveVars, runesVars,
                   mempoolVars, pureVars>>

AddressInit ==
    /\ RtIdle
    /\ StatusIdle
    /\ AddressIdle
    /\ CollectorIdle
    /\ ReserveIdle
    /\ RunesIdle
    /\ MempoolIdle
    /\ PureIdle

AddressNext ==
    \/ AddressLoop
    \/ AddressRunFailed
    \/ AddressIndexTransaction
    \/ AddressCommitState
    \/ AddressCommitStateErr

SpecAddress == AddressInit /\ [][AddressNext]_vars

\* C38: every committed Output row names an address that has an Address row,
\* whatever commits failed and whatever staging was reset before
C38_AddressRows == \A o \in outputs_table : o.address \in addresses

====
